---------------------------- MODULE Spec2Model ----------------------------
(***************************************************************************)
(* A model of the chess rules engine of profchessor (src/ruleset.py):      *)
(* the Position object, its move generation (generate_piece_moves,         *)
(* can_castle, update_moves), move application (move), the recursive move  *)
(* counter (search), the coordinate conversions and load_fen, and of the   *)
(* promotion prompt of the board GUI (src/gui/game_gui.py).                *)
(*                                                                         *)
(* Square indexes are 0..63, 0 = a8, row-major from white's view.  Pieces  *)
(* are the one-letter strings of the source, "" is an empty square.        *)
(***************************************************************************)
EXTENDS Integers, Sequences, FiniteSets, TLC

VARIABLES
    position,   \* the Position object: a record of its attributes
    before,     \* the attributes of the Position when the last call started
    call,       \* the arguments of the last call of move()
    result,     \* what the last call of move() returned (-1: nothing returned)
    raised,     \* the exception that left the last call, "" when it returned
    book,       \* the scripted moves that are still to be played
    ply,        \* the number of calls made after the script
    searched,   \* depth and return value of search(), when it was the last call
    loaded_fen, \* the string given to load_fen(), "" before it is called
    conversion, \* a square index i, its coordinate coor, and what
                \* coordinate_to_i(coor) returned, with how far this has got
    gui         \* the Board of the GUI, its last mouse event and the Board before it

vars == <<position, before, call, result, raised, book, ply, searched, loaded_fen, conversion,
          gui>>

(***************************************************************************)
(* Chess ruleset constants                                                 *)
(***************************************************************************)
Squares == 0..63

WhitePieces == {"P", "R", "N", "B", "Q", "K"}
BlackPieces == {"p", "r", "n", "b", "q", "k"}
PIECE_TYPES == WhitePieces \cup BlackPieces

STARTING_BOARD ==
    [i \in Squares |->
        IF i < 8 THEN <<"r", "n", "b", "q", "k", "b", "n", "r">>[i + 1]
        ELSE IF i < 16 THEN "p"
        ELSE IF i < 48 THEN ""
        ELSE IF i < 56 THEN "P"
        ELSE <<"R", "N", "B", "Q", "K", "B", "N", "R">>[i - 55]]

MOVE_OFFSETS(piece_type) ==
    CASE piece_type = "P" -> <<-8, -7, -9>>
      [] piece_type = "p" -> <<8, 7, 9>>
      [] piece_type = "R" -> <<1, -1, 8, -8>>
      [] piece_type = "B" -> <<7, -7, 9, -9>>
      [] piece_type = "N" -> <<6, -6, 10, -10, 15, -15, 17, -17>>
      [] piece_type = "Q" -> <<1, -1, 8, -8, 7, -7, 9, -9>>
      [] piece_type = "K" -> <<1, -1, 8, -8, 7, -7, 9, -9>>

\* The dictionary CASTLING_SQUARES; its keys in insertion order.
CASTLING_SIDES == <<"K", "Q", "k", "q">>

CASTLING_SQUARES(side) ==
    CASE side = "K" -> <<60, 61, 62, 63>>
      [] side = "Q" -> <<60, 59, 58, 56, 57>>
      [] side = "k" -> <<4, 5, 6, 7>>
      [] side = "q" -> <<4, 3, 2, 0, 1>>

\* The constants of class MoveResults, by name.
MoveResults ==
    [ILLEGAL |-> 0, MOVE |-> 1, CAPTURE |-> 2, CASTLE |-> 3,
     EN_PASSANT |-> 4, PROMOTION |-> 5, PROMPT_PROMOTION |-> 6]

(***************************************************************************)
(* Python's value operations, as the source uses them                      *)
(***************************************************************************)
\* str.isupper() and str.upper() on a piece letter ("" is not upper case).
IsUpper(p) == p \in WhitePieces
IsLower(p) == p \in BlackPieces

Upper(p) ==
    CASE p \in {"P", "p"} -> "P"
      [] p \in {"R", "r"} -> "R"
      [] p \in {"N", "n"} -> "N"
      [] p \in {"B", "b"} -> "B"
      [] p \in {"Q", "q"} -> "Q"
      [] p \in {"K", "k"} -> "K"
      [] OTHER -> p

\* x in lst, for a list of integers.
InList(x, lst) == \E i \in 1..Len(lst) : lst[i] = x

\* lst.index(x): the first position of x (1-based here).
IndexOf(x, lst) == CHOOSE i \in 1..Len(lst) : lst[i] = x /\ \A j \in 1..(i - 1) : lst[j] # x

\* x in lst, for an integer x and a list of lists: an integer equals no list.
IntInListOfLists(x, lst) == \E i \in 1..Len(lst) : FALSE

\* abs()
Abs(n) == IF n < 0 THEN -n ELSE n

\* Python's a % b for a negative b: the result has the sign of b.
PyModNeg(a, b) == -((-a) % (-b))

\* checking_piece holds an int, or (after a double check) the empty list.
IntValue(n) == [kind |-> "int", val |-> n]
EmptyList == [kind |-> "list", val |-> 0]

\* tracer == self.checking_piece: an int equals no list.
EqualsInt(v, n) == v.kind = "int" /\ v.val = n

\* A Python str is a string here; s[i] is the one-character string at the
\* 0-based position i.
CharAt(s, i) == SubSeq(s, i + 1, i + 1)

\* x in s, for two strings: x occurs in s as a substring.
InStr(x, s) == \E i \in 0..(Len(s) - Len(x)) : SubSeq(s, i + 1, i + Len(x)) = x

\* ord() and chr() on the lower-case letters.
Alphabet == "abcdefghijklmnopqrstuvwxyz"
Ord(c) == 97 + (CHOOSE i \in 0..25 : CharAt(Alphabet, i) = c)
Chr(n) == CharAt(Alphabet, n - 97)

\* str.isdigit() on one character, and the value of a digit.
DecimalDigits == "0123456789"
IsDigit(x) == Len(x) = 1 /\ InStr(x, DecimalDigits)
DigitValue(x) == CHOOSE d \in 0..9 : CharAt(DecimalDigits, d) = x

\* str(n) for a natural number n.
RECURSIVE Str(_)
Str(n) == IF n < 10 THEN CharAt(DecimalDigits, n)
          ELSE Str(n \div 10) \o CharAt(DecimalDigits, n % 10)

\* The value of the digits and underscores of s from position i on, after the
\* value acc of the digits before them.
RECURSIVE DigitsValue(_, _, _)
DigitsValue(s, i, acc) ==
    IF i >= Len(s) THEN acc
    ELSE IF CharAt(s, i) = "_" THEN DigitsValue(s, i + 1, acc)
    ELSE DigitsValue(s, i + 1, 10 * acc + DigitValue(CharAt(s, i)))

\* int(s) for a string without white space: [value, raised].  An optional sign,
\* then digits, single underscores allowed between digits; anything else is a
\* ValueError.
PyInt(s) ==
    LET signed == Len(s) > 0 /\ CharAt(s, 0) \in {"+", "-"}
        body == IF signed THEN SubSeq(s, 2, Len(s)) ELSE s
        n == Len(body)
        wellformed ==
            /\ n > 0
            /\ IsDigit(CharAt(body, 0)) /\ IsDigit(CharAt(body, n - 1))
            /\ \A i \in 0..(n - 1) : IsDigit(CharAt(body, i)) \/ CharAt(body, i) = "_"
            /\ \A i \in 0..(n - 2) : ~(CharAt(body, i) = "_" /\ CharAt(body, i + 1) = "_")
    IN  IF ~wellformed THEN [value |-> 0, raised |-> "ValueError"]
        ELSE [value |-> IF signed /\ CharAt(s, 0) = "-"
                        THEN -DigitsValue(body, 0, 0)
                        ELSE DigitsValue(body, 0, 0),
              raised |-> ""]

(***************************************************************************)
(* Conversion functions                                                    *)
(***************************************************************************)
i_to_xy(i) == <<i % 8, i \div 8>>

offset_to_xy(i) ==
    LET x == i % 8
        y == i \div 8
    IN  IF x > 4 THEN <<PyModNeg(x, -8), y + 1>> ELSE <<x, y>>

is_tracer_at_edge(tracer, offset) ==
    LET tracer_xy == i_to_xy(tracer)
        offset_xy == offset_to_xy(offset)
        x == tracer_xy[1] + offset_xy[1]
        y == tracer_xy[2] + offset_xy[2]
    IN  ~(0 <= x /\ x <= 7 /\ 0 <= y /\ y <= 7)

\* The standard chess coordinate of a square index.
i_to_coordinate(i) == Chr(Ord("a") + (i % 8)) \o Str(8 - (i \div 8))

\* coordinate_to_i(coor): [value, raised].  Line 173 tests the length, then the
\* file, then int(coor[1]), which raises ValueError itself for a non-digit.
coordinate_to_i(coor) ==
    IF Len(coor) # 2 \/ ~InStr(CharAt(coor, 0), "abcdefgh")
    THEN [value |-> -1, raised |-> "ValueError"]
    ELSE IF PyInt(CharAt(coor, 1)).raised # ""
    THEN [value |-> -1, raised |-> "ValueError"]
    ELSE IF ~(1 <= PyInt(CharAt(coor, 1)).value /\ PyInt(CharAt(coor, 1)).value <= 8)
    THEN [value |-> -1, raised |-> "ValueError"]
    ELSE [value |-> Ord(CharAt(coor, 0)) - Ord("a") + (8 - PyInt(CharAt(coor, 1)).value),
          raised |-> ""]


(***************************************************************************)
(* Position.generate_piece_moves                                           *)
(*                                                                         *)
(* One tracer is a record T: the Position (self, whose check and pin       *)
(* attributes the tracer writes), the local variables of one pass of the   *)
(* loop over the offsets, `broke` once the inner loop has left with break, *)
(* and `raised` once an exception has left the method.  The record c holds *)
(* what is fixed during a tracer: square, offset, controlling_only, piece, *)
(* piece_type, must_evade_check, pawn_push, pawn_capture.                  *)
(***************************************************************************)

\* Lines 422-445: the tracer has reached the enemy king with no pin suspect.
TracerChecksKing(T, c) ==
    IF ~c.controlling_only
    THEN [T EXCEPT !.raised = "AssertionError"]
    ELSE IF T.self.checking_piece.kind # "int"
    THEN \* `self.checking_piece >= 0` compares a list with an int
         [T EXCEPT !.self.check = TRUE, !.raised = "TypeError"]
    ELSE IF T.self.checking_piece.val >= 0
    THEN [T EXCEPT !.self.check = TRUE,
                   !.self.checking_piece = EmptyList,
                   !.stop_tracing = FALSE]
    ELSE [T EXCEPT !.self.check = TRUE,
                   !.self.checking_piece = IntValue(c.square),
                   !.self.checking_path = T.tracer_path,
                   !.stop_tracing = FALSE]

\* Lines 447-459: the phantom tracer has reached the enemy king.
TracerFindsPin(T, c) ==
    IF ~T.searching_ep_pin
    THEN [T EXCEPT !.self.pins =
                       Append(@, <<c.square>> \o T.tracer_path \o T.squares_behind_suspect),
                   !.self.pinned_pieces = Append(@, T.pin_suspect)]
    ELSE [T EXCEPT !.self.en_passant_pinned = T.pin_suspect]

\* Lines 477-509 without the `elif` of line 496: only a pawn behind the pushed
\* pawn is suspected.
EnPassantPinDetection_BackPawnOnly(T, c) ==
    LET front_pawn_square == T.tracer
        front_pawn == T.self.board[T.tracer]
        back_pawn_square == T.tracer + c.offset
        back_pawn == T.self.board[back_pawn_square]
        T1 == [T EXCEPT !.tracer = back_pawn_square,
                        !.stop_tracing = FALSE,
                        !.searching_ep_pin = TRUE]
    IN  IF back_pawn \in {"P", "p"} /\ IsUpper(front_pawn) # IsUpper(back_pawn)
        THEN IF Abs(front_pawn_square - T.self.en_passantable) = 8
             THEN [T1 EXCEPT !.pin_suspect = back_pawn_square]
             ELSE [T1 EXCEPT !.stop_tracing = TRUE]
        ELSE T1

\* Lines 477-509: en passant absolute pin detection.
EnPassantPinDetection(T, c) ==
    LET front_pawn_square == T.tracer
        front_pawn == T.self.board[T.tracer]
        back_pawn_square == T.tracer + c.offset
        back_pawn == T.self.board[back_pawn_square]
        T1 == [T EXCEPT !.tracer = back_pawn_square,
                        !.stop_tracing = FALSE,
                        !.searching_ep_pin = TRUE]
    IN  IF back_pawn \in {"P", "p"} /\ IsUpper(front_pawn) # IsUpper(back_pawn)
        THEN IF Abs(front_pawn_square - T.self.en_passantable) = 8
             THEN [T1 EXCEPT !.pin_suspect = back_pawn_square]
             ELSE IF Abs(back_pawn_square - T.self.en_passantable) = 8
             THEN [T1 EXCEPT !.pin_suspect = front_pawn_square]
             ELSE [T1 EXCEPT !.stop_tracing = TRUE]
        ELSE T1

\* Lines 461-509: the tracer piece is appended, and the tracer may go on.
TracerAppendsPiece(T, c, tracer_piece, different_color) ==
    LET T1 == [T EXCEPT !.tracer_path = Append(@, T.tracer)]
        T2 == IF c.controlling_only /\ different_color /\ tracer_piece \notin {"K", "k"}
              THEN [T1 EXCEPT !.pin_suspect = T.tracer, !.stop_tracing = FALSE]
              ELSE T1
    IN  IF T.self.en_passantable # -1 /\ tracer_piece \in {"P", "p"}
            /\ (c.square \div 8) \in {3, 4} /\ Abs(c.offset) = 1
        THEN EnPassantPinDetection(T2, c)
        ELSE T2

\* Lines 511-512: `if stop_tracing: break`.
BreakIfStopped(T) ==
    IF T.raised = "" /\ T.stop_tracing THEN [T EXCEPT !.broke = TRUE] ELSE T

\* Lines 364-512: the tracer has encountered another piece.
TracerMeetsPiece(T, c) ==
    LET self == T.self
        tracer == T.tracer
        tracer_piece == self.board[tracer]
        different_color == IsUpper(tracer_piece) # IsUpper(c.piece)
        T0 == [T EXCEPT !.stop_tracing = TRUE]
        appended ==
            (~InList(c.square, self.pinned_pieces) \/ IntInListOfLists(tracer, self.pins))
            /\ (c.controlling_only
                \/ (different_color /\ ~c.pawn_push
                    /\ ((c.piece_type # "K"
                            /\ (~c.must_evade_check \/ EqualsInt(self.checking_piece, tracer)))
                        \/ (c.piece_type = "K" /\ tracer \notin self.attacked_squares))))
        T1 == IF tracer_piece \in {"K", "k"} /\ different_color
              THEN IF T.pin_suspect = -1
                   THEN TracerChecksKing(T0, c)
                   ELSE TracerFindsPin(T0, c)
              ELSE T0
    IN  BreakIfStopped(
            IF ~appended THEN T0
            ELSE IF T1.raised # "" THEN T1
            ELSE IF T.pin_suspect = -1
            THEN TracerAppendsPiece(T1, c, tracer_piece, different_color)
            ELSE T1)

\* Lines 514-552: the tracer is on an empty square.
TracerOnEmptySquare(T, c) ==
    LET self == T.self
        tracer == T.tracer
    IN  IF ~(~c.pawn_capture \/ c.controlling_only
             \/ (tracer = self.en_passantable /\ c.square # self.en_passant_pinned))
        THEN T
        ELSE IF T.pin_suspect # -1
        THEN [T EXCEPT !.squares_behind_suspect = Append(@, tracer)]
        ELSE IF InList(c.square, self.pinned_pieces)
                /\ ~InList(tracer, self.pins[IndexOf(c.square, self.pinned_pieces)])
        THEN [T EXCEPT !.broke = TRUE]
        ELSE IF (~c.must_evade_check /\ c.piece_type # "K")
                \/ (c.controlling_only /\ ~c.pawn_push)
                \/ (c.piece_type = "K" /\ tracer \notin self.attacked_squares)
        THEN [T EXCEPT !.tracer_path = Append(@, tracer)]
        ELSE IF c.must_evade_check /\ c.piece_type # "K" /\ InList(tracer, self.checking_path)
        THEN [T EXCEPT !.tracer_path = Append(@, tracer), !.broke = TRUE]
        ELSE T

\* Lines 554-559: the tracer stops at the edge of the board, or moves on.
AdvanceTracer(T, c) ==
    IF T.raised # "" \/ T.broke THEN T
    ELSE IF is_tracer_at_edge(T.tracer, c.offset) /\ ~c.pawn_capture
    THEN [T EXCEPT !.broke = TRUE]
    ELSE [T EXCEPT !.tracer = @ + c.offset]

\* Lines 362-559: one pass of `for _ in range(trace_distance)`.
TracerStep(T, c) ==
    AdvanceTracer(IF T.self.board[T.tracer] # ""
                  THEN TracerMeetsPiece(T, c)
                  ELSE TracerOnEmptySquare(T, c),
                  c)

\* Lines 349-559: `for _ in range(trace_distance)`, n passes left.
RECURSIVE TracerLoop(_, _, _)
TracerLoop(T, c, n) ==
    IF n = 0 \/ T.broke \/ T.raised # "" THEN T
    ELSE TracerLoop(TracerStep(T, c), c, n - 1)

\* A variant of lines 337-347 in which no pawn goes two squares.
TraceDistance_NoTwoSquarePush(c) ==
    IF c.piece_type \in {"N", "K"} \/ c.pawn_capture THEN 1
    ELSE IF c.pawn_push THEN 1
    ELSE 7

\* Lines 337-347: determine how far the tracer goes.
TraceDistance(c) ==
    IF c.piece_type \in {"N", "K"} \/ c.pawn_capture THEN 1
    ELSE IF c.pawn_push THEN (IF (c.square \div 8) \in {1, 6} THEN 2 ELSE 1)
    ELSE 7

\* Line 561: ret.extend(tracer_path), on G = [self, ret, raised] once the
\* tracer T has ended.
ExtendRet(G, T) ==
    [self |-> T.self,
     ret |-> IF T.raised = "" THEN G.ret \o T.tracer_path ELSE G.ret,
     raised |-> T.raised]

\* Lines 310-561: the body of `for offset in MOVE_OFFSETS[piece_type]`, run on
\* G = [self, ret, raised].
TraceOffset(G, square, offset, controlling_only, must_evade_check) ==
    LET piece == G.self.board[square]
        piece_type == IF piece = "p" THEN piece ELSE Upper(piece)
        c == [square |-> square, offset |-> offset,
              controlling_only |-> controlling_only,
              must_evade_check |-> must_evade_check,
              piece |-> piece, piece_type |-> piece_type,
              pawn_push |-> piece_type \in {"P", "p"} /\ Abs(offset) = 8,
              pawn_capture |-> piece_type \in {"P", "p"} /\ Abs(offset) # 8]
    IN  IF is_tracer_at_edge(square, offset) \/ (c.pawn_push /\ controlling_only)
        THEN G
        ELSE ExtendRet(G, TracerLoop([self |-> G.self,
                                      tracer |-> square + offset,
                                      tracer_path |-> <<>>,
                                      pin_suspect |-> -1,
                                      squares_behind_suspect |-> <<>>,
                                      searching_ep_pin |-> FALSE,
                                      stop_tracing |-> FALSE,
                                      broke |-> FALSE,
                                      raised |-> ""], c, TraceDistance(c)))

RECURSIVE TraceOffsets(_, _, _, _, _, _)
TraceOffsets(G, square, offsets, k, controlling_only, must_evade_check) ==
    IF k > Len(offsets) \/ G.raised # "" THEN G
    ELSE TraceOffsets(TraceOffset(G, square, offsets[k], controlling_only, must_evade_check),
                      square, offsets, k + 1, controlling_only, must_evade_check)

\* A variant of can_castle that does not look at attacked_squares.
can_castle_IgnoresAttacks(self, side) ==
    LET squares_after_castling == SubSeq(CASTLING_SQUARES(side), 2, 3)
        squares_in_between ==
            IF side \in {"Q", "q"}
            THEN Append(squares_after_castling, CASTLING_SQUARES(side)[5])
            ELSE squares_after_castling
    IN  /\ ~self.check
        /\ self.castling_rights[side]
        /\ \A i \in 1..Len(squares_in_between) : self.board[squares_in_between[i]] = ""

\* Position.can_castle
can_castle(self, side) ==
    LET squares_after_castling == SubSeq(CASTLING_SQUARES(side), 2, 3)
        squares_in_between ==
            IF side \in {"Q", "q"}
            THEN Append(squares_after_castling, CASTLING_SQUARES(side)[5])
            ELSE squares_after_castling
    IN  /\ ~self.check
        /\ self.castling_rights[side]
        /\ \A i \in 1..Len(squares_in_between) : self.board[squares_in_between[i]] = ""
        /\ \A i \in 1..Len(squares_after_castling) :
               squares_after_castling[i] \notin self.attacked_squares

\* Lines 563-567: add castling moves for kings.
RECURSIVE CastlingMoves(_, _, _, _)
CastlingMoves(self, square, ret, k) ==
    IF k > Len(CASTLING_SIDES) THEN ret
    ELSE LET side == CASTLING_SIDES[k]
             castling_squares == CASTLING_SQUARES(side)
         IN  CastlingMoves(self, square,
                           IF square = castling_squares[1] /\ can_castle(self, side)
                           THEN Append(ret, castling_squares[3])
                           ELSE ret,
                           k + 1)

\* Lines 563-569: the castling moves are added for a king out of check.
AddCastlingMoves(G, square, piece_type, controlling_only) ==
    IF G.raised # "" THEN G
    ELSE IF piece_type = "K" /\ ~controlling_only /\ ~G.self.check
    THEN [G EXCEPT !.ret = CastlingMoves(G.self, square, G.ret, 1)]
    ELSE G

\* generate_piece_moves(square, controlling_only): [self, ret, raised], the
\* Position after the call, the list returned and the exception raised.  Every
\* square handed over holds a piece, so line 308 raises nothing.
generate_piece_moves(self, square, controlling_only) ==
    LET piece == self.board[square]
        piece_type == IF piece = "p" THEN piece ELSE Upper(piece)
        must_evade_check == self.check /\ ~controlling_only
    IN  AddCastlingMoves(
            TraceOffsets([self |-> self, ret |-> <<>>, raised |-> ""], square,
                         MOVE_OFFSETS(piece_type), 1, controlling_only, must_evade_check),
            square, piece_type, controlling_only)

(***************************************************************************)
(* Position.update_moves                                                   *)
(***************************************************************************)
\* [i for i, x in enumerate(self.board) if x.isupper()] (or islower()), from i on.
RECURSIVE PiecesOf(_, _, _)
PiecesOf(board, upper, i) ==
    IF i > 63 THEN <<>>
    ELSE IF (upper /\ IsUpper(board[i])) \/ (~upper /\ IsLower(board[i]))
    THEN <<i>> \o PiecesOf(board, upper, i + 1)
    ELSE PiecesOf(board, upper, i + 1)

\* One item of the dictionary: the list G.ret under the key square.
PutMoves(D, square, G) ==
    [self |-> G.self, moves |-> D.moves @@ (square :> G.ret), raised |-> G.raised]

\* {square: self.generate_piece_moves(square, ...) for square in squares}:
\* D = [self, moves, raised], the dictionary built so far in `moves`.
RECURSIVE GenerateAll(_, _, _, _)
GenerateAll(D, squares, k, controlling_only) ==
    IF k > Len(squares) \/ D.raised # "" THEN D
    ELSE GenerateAll(PutMoves(D, squares[k],
                              generate_piece_moves(D.self, squares[k], controlling_only)),
                     squares, k + 1, controlling_only)

EmptyDict == [x \in {} |-> <<>>]

\* The set of the items of the lists of a dictionary.
ItemsOf(moves) == UNION {{moves[s][i] : i \in 1..Len(moves[s])} : s \in DOMAIN moves}

\* Lines 596-600: check and pins are reset.
ResetCheckAndPins(self) ==
    [self EXCEPT !.check = FALSE,
                 !.checking_piece = IntValue(-1),
                 !.checking_path = <<>>,
                 !.pins = <<>>,
                 !.pinned_pieces = <<>>]

\* Lines 602-607: the squares controlled by the pieces of the side not to move.
GenerateEnemyMoves(self) ==
    GenerateAll([self |-> self, moves |-> EmptyDict, raised |-> ""],
                PiecesOf(self.board, ~self.turn, 0), 1, TRUE)

\* Lines 607-608: enemy_moves and attacked_squares are assigned.
SetEnemyMoves(E) ==
    IF E.raised # "" THEN [self |-> E.self, raised |-> E.raised]
    ELSE [self |-> [E.self EXCEPT !.enemy_moves = E.moves,
                                  !.attacked_squares = ItemsOf(E.moves)],
          raised |-> ""]

\* Line 612: legal_moves is assigned.
SetLegalMoves(L) ==
    IF L.raised # "" THEN [self |-> L.self, raised |-> L.raised]
    ELSE [self |-> [L.self EXCEPT !.legal_moves = L.moves], raised |-> ""]

\* Lines 610-612: the moves of the pieces of the side to move.
GenerateLegalMoves(A) ==
    IF A.raised # "" THEN A
    ELSE SetLegalMoves(GenerateAll([self |-> A.self, moves |-> EmptyDict, raised |-> ""],
                                   PiecesOf(A.self.board, A.self.turn, 0), 1, FALSE))

\* update_moves(): [self, raised].
update_moves(self) ==
    GenerateLegalMoves(SetEnemyMoves(GenerateEnemyMoves(ResetCheckAndPins(self))))

\* Position.__init__ with neither fen nor load_from.
NewPosition ==
    update_moves([board |-> STARTING_BOARD,
                  turn |-> TRUE,
                  move_num |-> 1,
                  halfmove_clock |-> 0,
                  en_passantable |-> -1,
                  castling_rights |-> [s \in {"K", "k", "Q", "q"} |-> TRUE],
                  legal_moves |-> EmptyDict,
                  enemy_moves |-> EmptyDict,
                  attacked_squares |-> {},
                  pins |-> <<>>,
                  pinned_pieces |-> <<>>,
                  en_passant_pinned |-> -1,
                  check |-> FALSE,
                  checking_piece |-> IntValue(-1),
                  checking_path |-> <<>>]).self

(***************************************************************************)
(* Position.load_fen                                                       *)
(***************************************************************************)
\* fen.split(): the fields of s between runs of white space, from position i
\* on, after the fields of acc and the characters of cur.
RECURSIVE SplitFields(_, _, _, _)
SplitFields(s, i, cur, acc) ==
    IF i >= Len(s) THEN (IF cur = "" THEN acc ELSE Append(acc, cur))
    ELSE IF CharAt(s, i) = " "
    THEN SplitFields(s, i + 1, "", IF cur = "" THEN acc ELSE Append(acc, cur))
    ELSE SplitFields(s, i + 1, cur \o CharAt(s, i), acc)

\* s.split(sep): the parts of s between every two occurrences of the character
\* sep, the empty ones too.
RECURSIVE SplitOn(_, _, _, _, _)
SplitOn(s, sep, i, cur, acc) ==
    IF i >= Len(s) THEN Append(acc, cur)
    ELSE IF CharAt(s, i) = sep THEN SplitOn(s, sep, i + 1, "", Append(acc, cur))
    ELSE SplitOn(s, sep, i + 1, cur \o CharAt(s, i), acc)

\* [""] * n
EmptySquares(n) == [k \in 1..n |-> ""]

\* Lines 721-728: the squares of one row, [row, raised], from character i on.
RECURSIVE DecodeRow(_, _, _)
DecodeRow(row, i, decoded_row) ==
    IF i >= Len(row) THEN [row |-> decoded_row, raised |-> ""]
    ELSE IF CharAt(row, i) \in PIECE_TYPES
    THEN DecodeRow(row, i + 1, Append(decoded_row, CharAt(row, i)))
    ELSE IF IsDigit(CharAt(row, i))
    THEN DecodeRow(row, i + 1, decoded_row \o EmptySquares(PyInt(CharAt(row, i)).value))
    ELSE [row |-> decoded_row, raised |-> "ValueError"]

\* Lines 719-733: the rows from the k-th on, [board, raised].
RECURSIVE DecodeRows(_, _, _)
DecodeRows(rows, k, decoded_board) ==
    IF k > Len(rows) THEN [board |-> decoded_board, raised |-> ""]
    ELSE IF DecodeRow(rows[k], 0, <<>>).raised # ""
         \/ Len(DecodeRow(rows[k], 0, <<>>).row) # 8
    THEN [board |-> decoded_board, raised |-> "ValueError"]
    ELSE DecodeRows(rows, k + 1, decoded_board \o DecodeRow(rows[k], 0, <<>>).row)

\* Lines 712-717: the decoded board of the placement field, [board, raised].
DecodeBoard(board_raw) ==
    IF Len(SplitOn(board_raw, "/", 0, "", <<>>)) # 8
    THEN [board |-> <<>>, raised |-> "ValueError"]
    ELSE DecodeRows(SplitOn(board_raw, "/", 0, "", <<>>), 1, <<>>)

\* A load that a ValueError has left.
FenError(self) == [self |-> self, raised |-> "ValueError"]

\* Lines 750-756: halfmove clock, fullmove number and update_moves().
LoadCounters(self, halfmove_clock, move_num) ==
    IF PyInt(halfmove_clock).raised # "" THEN FenError(self)
    ELSE IF PyInt(move_num).raised # ""
    THEN FenError([self EXCEPT !.halfmove_clock = PyInt(halfmove_clock).value])
    ELSE update_moves([self EXCEPT !.halfmove_clock = PyInt(halfmove_clock).value,
                                   !.move_num = PyInt(move_num).value])

\* Lines 747-748: the en passant field.
LoadEnPassant(self, en_passantable, halfmove_clock, move_num) ==
    IF en_passantable = "-"
    THEN LoadCounters([self EXCEPT !.en_passantable = -1], halfmove_clock, move_num)
    ELSE IF coordinate_to_i(en_passantable).raised # "" THEN FenError(self)
    ELSE LoadCounters([self EXCEPT !.en_passantable = coordinate_to_i(en_passantable).value],
                      halfmove_clock, move_num)

\* Lines 743-745 left out: the castling field is read and castling_rights kept.
LoadCastling_KeepsRights(self, castling_rights, en_passantable, halfmove_clock, move_num) ==
    LoadEnPassant(self, en_passantable, halfmove_clock, move_num)

\* Lines 743-745: the castling field.
LoadCastling(self, castling_rights, en_passantable, halfmove_clock, move_num) ==
    LoadEnPassant([self EXCEPT !.castling_rights =
                       [x \in {"K", "Q", "k", "q"} |-> InStr(x, castling_rights)]],
                  en_passantable, halfmove_clock, move_num)

\* Lines 735-741 without the final else: every colour but "w" is Black.
LoadTurn_AnyColour(self, turn, castling_rights, en_passantable, halfmove_clock, move_num) ==
    LoadCastling([self EXCEPT !.turn = InStr(turn, "w")],
                 castling_rights, en_passantable, halfmove_clock, move_num)

\* Lines 735-741: the active colour; `turn in "w"` is a substring test.
LoadTurn(self, turn, castling_rights, en_passantable, halfmove_clock, move_num) ==
    IF InStr(turn, "w")
    THEN LoadCastling([self EXCEPT !.turn = TRUE],
                      castling_rights, en_passantable, halfmove_clock, move_num)
    ELSE IF turn = "b"
    THEN LoadCastling([self EXCEPT !.turn = FALSE],
                      castling_rights, en_passantable, halfmove_clock, move_num)
    ELSE FenError(self)

\* Lines 711-733: the placement field; self.board is assigned once every row
\* has been decoded.
LoadBoard(self, decoded, turn, castling_rights, en_passantable, halfmove_clock, move_num) ==
    IF decoded.raised # "" THEN FenError(self)
    ELSE LoadTurn([self EXCEPT !.board = [i \in Squares |-> decoded.board[i + 1]]],
                  turn, castling_rights, en_passantable, halfmove_clock, move_num)

\* Line 709: the six fields are unpacked; any other number of them is a
\* ValueError.
LoadFields(self, fields) ==
    IF Len(fields) # 6 THEN FenError(self)
    ELSE LoadBoard(self, DecodeBoard(fields[1]), fields[2], fields[3], fields[4],
                   fields[5], fields[6])

\* load_fen(fen): [self, raised].
load_fen(self, fen) == LoadFields(self, SplitFields(fen, 0, "", <<>>))

(***************************************************************************)
(* Position.move                                                           *)
(***************************************************************************)
\* Line 619: old in self.legal_moves and new in self.legal_moves[old].
IsListed(self, old, new) ==
    old \in DOMAIN self.legal_moves /\ InList(new, self.legal_moves[old])

\* Line 625: the move is a promotion whose piece is still not determined.
PromotionPending(piece, new, promote_to) ==
    piece \in {"P", "p"} /\ (new \div 8) \in {0, 8} /\ promote_to = "None"

\* A variant of lines 630-652 in which an en passant capture takes what stands
\* on the target square and leaves the pawn behind it.
MovePiece_TakesOnTarget(self, old, new) ==
    LET piece == self.board[old]
        moved == [self.board EXCEPT ![new] = piece, ![old] = ""]
    IN  IF piece \in {"P", "p"} /\ Abs(new - old) = 16
        THEN [board |-> moved,
              en_passantable |-> old + (IF piece = "p" THEN 8 ELSE -8),
              captured_piece |-> self.board[new]]
        ELSE [board |-> moved,
              en_passantable |-> -1,
              captured_piece |-> self.board[new]]

\* A variant of lines 630-652 in which a move that is no two-square pawn push
\* leaves en_passantable as it was.
MovePiece_KeepsTarget(self, old, new) ==
    LET piece == self.board[old]
        moved == [self.board EXCEPT ![new] = piece, ![old] = ""]
        en_passanted_square == new + (IF piece = "p" THEN -8 ELSE 8)
    IN  IF piece \in {"P", "p"} /\ Abs(new - old) = 16
        THEN [board |-> moved,
              en_passantable |-> old + (IF piece = "p" THEN 8 ELSE -8),
              captured_piece |-> self.board[new]]
        ELSE IF piece \in {"P", "p"} /\ new = self.en_passantable
        THEN [board |-> [moved EXCEPT ![en_passanted_square] = ""],
              en_passantable |-> -1,
              captured_piece |-> moved[en_passanted_square]]
        ELSE [board |-> moved,
              en_passantable |-> self.en_passantable,
              captured_piece |-> self.board[new]]

\* Lines 630-652: move the piece; en passant.  [board, en_passantable,
\* captured_piece].
MovePiece(self, old, new) ==
    LET piece == self.board[old]
        moved == [self.board EXCEPT ![new] = piece, ![old] = ""]
        en_passanted_square == new + (IF piece = "p" THEN -8 ELSE 8)
    IN  IF piece \in {"P", "p"} /\ Abs(new - old) = 16
        THEN [board |-> moved,
              en_passantable |-> old + (IF piece = "p" THEN 8 ELSE -8),
              captured_piece |-> self.board[new]]
        ELSE IF piece \in {"P", "p"} /\ new = self.en_passantable
        THEN [board |-> [moved EXCEPT ![en_passanted_square] = ""],
              en_passantable |-> -1,
              captured_piece |-> moved[en_passanted_square]]
        ELSE [board |-> moved,
              en_passantable |-> -1,
              captured_piece |-> self.board[new]]

\* A variant of lines 657-661 that does not look at the square the piece
\* moves onto.
RightsAfter_IgnoresCapturedRook(castling_rights, old, new) ==
    [side \in DOMAIN castling_rights |->
        IF old = CASTLING_SQUARES(side)[1] \/ old = CASTLING_SQUARES(side)[4]
        THEN FALSE
        ELSE castling_rights[side]]

\* Lines 657-661: the castling rights that the move leaves.
RightsAfter(castling_rights, old, new) ==
    [side \in DOMAIN castling_rights |->
        IF old = CASTLING_SQUARES(side)[1] \/ old = CASTLING_SQUARES(side)[4]
           \/ new = CASTLING_SQUARES(side)[4]
        THEN FALSE
        ELSE castling_rights[side]]

\* A variant of lines 663-671 in which the rook stays where it is.
MoveRook_RookStays(board, new, k) == board

\* Lines 663-671: the rook of a castling move goes to its square.
RECURSIVE MoveRook(_, _, _)
MoveRook(board, new, k) ==
    IF k > Len(CASTLING_SIDES) THEN board
    ELSE LET squares == CASTLING_SQUARES(CASTLING_SIDES[k])
             rook_old == squares[4]
             rook_new == squares[2]
         IN  MoveRook(IF new = squares[3]
                      THEN [board EXCEPT ![rook_new] = board[rook_old], ![rook_old] = ""]
                      ELSE board,
                      new, k + 1)

\* Lines 676-679: the halfmove clock after the move.
\* Lines 676-679 with the clock reset by pawn moves only.
ClockAfter_PawnMovesOnly(halfmove_clock, piece, captured_piece) ==
    IF piece \in {"P", "p"} THEN 0 ELSE halfmove_clock + 1

ClockAfter(halfmove_clock, piece, captured_piece) ==
    IF piece \in {"P", "p"} \/ captured_piece # "" THEN 0 ELSE halfmove_clock + 1

\* Line 706: what an accepted move returns.
ReturnOfMove(piece, captured_piece, old, new, promote_to) == 1

\* Lines 630-671: the board once the piece, the pawn taken en passant and the
\* rook of a castling move have been moved.
BoardAfterMove(self, old, new) ==
    IF self.board[old] \in {"K", "k"} /\ Abs(new - old) = 2
    THEN MoveRook(MovePiece(self, old, new).board, new, 1)
    ELSE MovePiece(self, old, new).board

\* Lines 630-684 with line 683 left out: move_num grows with every move.
MadeMove_CountsEveryMove(self, old, new) ==
    [self EXCEPT !.board = BoardAfterMove(self, old, new),
                 !.en_passantable = MovePiece(self, old, new).en_passantable,
                 !.castling_rights = RightsAfter(@, old, new),
                 !.halfmove_clock = ClockAfter(@, self.board[old],
                                               MovePiece(self, old, new).captured_piece),
                 !.turn = ~self.turn,
                 !.move_num = @ + 1]

\* Lines 630-684: the Position when update_moves() is called.
MadeMove(self, old, new) ==
    LET piece == self.board[old]
        m == MovePiece(self, old, new)
        turn == ~self.turn
    IN  [self EXCEPT !.board = BoardAfterMove(self, old, new),
                     !.en_passantable = m.en_passantable,
                     !.castling_rights = RightsAfter(@, old, new),
                     !.halfmove_clock = ClockAfter(@, piece, m.captured_piece),
                     !.turn = turn,
                     !.move_num = IF turn THEN @ + 1 ELSE @]

\* Lines 689-706: U is what update_moves() leaves; the value is returned.
ReturnAfterUpdate(U, self, old, new, promote_to) ==
    [self |-> U.self,
     result |-> IF U.raised = ""
                THEN ReturnOfMove(self.board[old],
                                  MovePiece(self, old, new).captured_piece,
                                  old, new, promote_to)
                ELSE -1,
     raised |-> U.raised]

\* A variant of move() without lines 619-620: the move is made whether
\* legal_moves lists it or not.
move_Unchecked(self, old, new, promote_to) ==
    IF PromotionPending(self.board[old], new, promote_to)
    THEN [self |-> self, result |-> MoveResults.PROMPT_PROMOTION, raised |-> ""]
    ELSE ReturnAfterUpdate(update_moves(MadeMove(self, old, new)),
                           self, old, new, promote_to)

\* move(old, new, promote_to): [self, result, raised]; result is -1 when the
\* call raised and returned nothing.
move(self, old, new, promote_to) ==
    IF ~IsListed(self, old, new)
    THEN [self |-> self, result |-> MoveResults.ILLEGAL, raised |-> ""]
    ELSE IF PromotionPending(self.board[old], new, promote_to)
    THEN [self |-> self, result |-> MoveResults.PROMPT_PROMOTION, raised |-> ""]
    ELSE ReturnAfterUpdate(update_moves(MadeMove(self, old, new)),
                           self, old, new, promote_to)

(***************************************************************************)
(* Position.load_position, copy and search                                 *)
(***************************************************************************)
\* Position.ATTRIBUTES, the names __init__ saves at line 269 (the
\* transposition_table, which nothing writes, is left out of the model).
ATTRIBUTES ==
    {"board", "turn", "move_num", "halfmove_clock", "en_passantable", "castling_rights",
     "legal_moves", "enemy_moves", "attacked_squares", "pins", "pinned_pieces",
     "en_passant_pinned", "check", "checking_piece", "checking_path"}

\* copy(): Position(load_from=self), a new object with a copy of each attribute.
copy(self) == [attr \in ATTRIBUTES |-> self[attr]]

\* The (old, new) pairs in the order search() visits them.
RECURSIVE PairsFrom(_, _, _)
PairsFrom(legal_moves, olds, k) ==
    IF k > Len(olds) THEN <<>>
    ELSE [i \in 1..Len(legal_moves[olds[k]]) |-> <<olds[k], legal_moves[olds[k]][i]>>]
         \o PairsFrom(legal_moves, olds, k + 1)

RECURSIVE SortedSeq(_)
SortedSeq(S) ==
    IF S = {} THEN <<>>
    ELSE LET m == CHOOSE x \in S : \A y \in S : x <= y
         IN  <<m>> \o SortedSeq(S \ {m})

RECURSIVE SumLens(_, _, _)
SumLens(legal_moves, olds, k) ==
    IF k > Len(olds) THEN 0
    ELSE Len(legal_moves[olds[k]]) + SumLens(legal_moves, olds, k + 1)

RECURSIVE search(_, _)

\* Line 779: new_copy.search(depth - 1), once new_copy.move() has been called.
SearchCopy(new_copy, depth) ==
    IF new_copy.raised # ""
    THEN [count |-> 0, raised |-> new_copy.raised, self |-> new_copy.self]
    ELSE search(new_copy.self, depth - 1)

\* The attributes whose objects move() changes in place, by item assignment
\* (lines 631-632, 650, 656-661 and 668-671); every other attribute it writes
\* is bound to a new object.
ChangedInPlace == {"board", "castling_rights"}

\* Lines 762-763 with setattr(self, attr, getattr(load_from, attr)): the new
\* object refers to the attribute objects of load_from.
SharedWithCopy_NoDeepcopy(load_from) == ATTRIBUTES

\* Lines 762-763: the attribute objects of load_from that the new object refers
\* to as well; copy.deepcopy() leaves none.
SharedWithCopy(load_from) == {attr \in ATTRIBUTES : FALSE}

\* The receiver once new_copy has been moved and searched: an object the two
\* share shows the receiver what was written through new_copy.
SeenByReceiver(self, new_copy, shared) ==
    IF shared \cap ChangedInPlace = {} THEN self
    ELSE [attr \in DOMAIN self |->
             IF attr \in shared \cap ChangedInPlace THEN new_copy[attr] ELSE self[attr]]

\* Line 779: count += ...; an exception leaves search() with no count.
AddCount(acc, sub) ==
    [count |-> IF sub.raised = "" THEN acc.count + sub.count ELSE 0,
     raised |-> sub.raised,
     self |-> SeenByReceiver(acc.self, sub.self, SharedWithCopy(acc.self))]

\* Lines 776-780: the loop over the legal moves, from the k-th pair on, with
\* acc = [count, raised, self] so far, self being the receiver as it is now.
RECURSIVE SearchLoop(_, _, _, _)
SearchLoop(pairs, k, depth, acc) ==
    IF k > Len(pairs) \/ acc.raised # "" THEN acc
    ELSE SearchLoop(pairs, k + 1, depth,
                    AddCount(acc,
                             SearchCopy(move(copy(acc.self), pairs[k][1], pairs[k][2], "None"),
                                        depth)))

\* search(depth): [count, raised, self], self being the receiver after the call.
search(self, depth) ==
    IF depth <= 1
    THEN [count |-> SumLens(self.legal_moves, SortedSeq(DOMAIN self.legal_moves), 1),
          raised |-> "",
          self |-> self]
    ELSE SearchLoop(PairsFrom(self.legal_moves, SortedSeq(DOMAIN self.legal_moves), 1),
                    1, depth, [count |-> 0, raised |-> "", self |-> self])

(***************************************************************************)
(* The board GUI (src/gui/game_gui.py): the Board with its pieces, the     *)
(* drag and drop of a piece with the mouse, and the PromotionPrompt.  A    *)
(* Board is a record; its pieces are numbered from 1, a piece that has     *)
(* been removed has square NoSquare.  game_calls lists the calls of        *)
(* game.move() made while the current mouse event is handled, raised is    *)
(* the exception that left its handler.                                    *)
(***************************************************************************)
\* None, where a square (get_square_on_pos) or a piece (square.piece) stands.
NoSquare == -1
NoPiece == 0

\* board.promotion_prompt = None.
NoPrompt == [new_square |-> NoSquare, pawn |-> NoPiece, pieces |-> <<>>]

WHITE_PIECES == <<"Q", "R", "N", "B">>
BLACK_PIECES == <<"q", "r", "n", "b">>

\* Board.__init__ and reset_board for a board with a white pawn on b7, a black
\* pawn on g2 and a black rook on a8.
NewBoard ==
    [pieces |-> << [piece_type |-> "P", square |-> 9, lifted |-> FALSE, hidden |-> FALSE],
                   [piece_type |-> "p", square |-> 54, lifted |-> FALSE, hidden |-> FALSE],
                   [piece_type |-> "r", square |-> 0, lifted |-> FALSE, hidden |-> FALSE] >>,
     fader |-> 0,
     promotion_prompt |-> NoPrompt,
     enable_drag_and_drop |-> TRUE,
     dragging |-> NoPiece,
     game_calls |-> <<>>,
     raised |-> ""]

\* square.piece of the square with index i.
SquarePiece(board, i) ==
    IF \E id \in DOMAIN board.pieces : board.pieces[id].square = i
    THEN CHOOSE id \in DOMAIN board.pieces : board.pieces[id].square = i
    ELSE NoPiece

\* Piece.move_to_square(new_square): the piece is shown on the square, and bound
\* to it; a piece that stood there is removed (Square.remove_piece, Piece.remove).
move_to_square(board, piece, new_square) ==
    IF new_square = board.pieces[piece].square
    THEN [board EXCEPT !.pieces[piece].lifted = FALSE]
    ELSE [board EXCEPT !.pieces =
             [id \in DOMAIN board.pieces |->
                 IF id = piece
                 THEN [board.pieces[id] EXCEPT !.square = new_square, !.lifted = FALSE]
                 ELSE IF board.pieces[id].square = new_square
                 THEN [board.pieces[id] EXCEPT !.square = NoSquare]
                 ELSE board.pieces[id]]]

\* game.move(old, new, promote_to) of the rules engine, as far as the board looks
\* at its result: legal and game_over say what the engine finds.
game_move(piece_type, old, new, promote_to, legal, game_over) ==
    IF ~legal
    THEN [move_made |-> FALSE, promotion |-> FALSE, game_over |-> FALSE]
    ELSE IF piece_type \in {"P", "p"} /\ (new \div 8) \in {0, 7} /\ promote_to = "None"
    THEN [move_made |-> FALSE, promotion |-> TRUE, game_over |-> FALSE]
    ELSE [move_made |-> TRUE, promotion |-> promote_to # "None", game_over |-> game_over]

\* The call game.move(old, new, promote_to) is made.
GameCalled(board, old, new, promote_to) ==
    [board EXCEPT !.game_calls = Append(@, [old |-> old, new |-> new, promote_to |-> promote_to])]

\* Lines 174-224 without line 199: drag and drop stays enabled.
PromotionPrompt_KeepsDragAndDrop(board, new_square, pawn) ==
    LET white == IsUpper(board.pieces[pawn].piece_type)
        pieces_by_color == IF white THEN WHITE_PIECES ELSE BLACK_PIECES
        offset == IF white THEN 8 ELSE -8
    IN  [board EXCEPT !.pieces[pawn].hidden = TRUE,
                      !.fader = 3,
                      !.promotion_prompt =
                          [new_square |-> new_square,
                           pawn |-> pawn,
                           pieces |-> [i \in {new_square + offset * k : k \in 0..3} |->
                                          pieces_by_color[(Abs(i - new_square) \div 8) + 1]]]]

\* PromotionPrompt.__init__ and the assignment of line 393: the pawn is hidden,
\* the fader set, drag and drop disabled, and a button made on each of four
\* squares from new_square on.
PromotionPrompt(board, new_square, pawn) ==
    LET white == IsUpper(board.pieces[pawn].piece_type)
        pieces_by_color == IF white THEN WHITE_PIECES ELSE BLACK_PIECES
        offset == IF white THEN 8 ELSE -8
    IN  IF board.pieces[pawn].piece_type \notin {"P", "p"} \/ (new_square \div 8) \notin {0, 7}
        THEN [board EXCEPT !.raised = "AssertionError"]
        ELSE IF new_square + offset * 3 > 63
        THEN \* board.squares[i] with i beyond the list
             [board EXCEPT !.pieces[pawn].hidden = TRUE,
                           !.fader = 3,
                           !.enable_drag_and_drop = FALSE,
                           !.raised = "IndexError"]
        ELSE [board EXCEPT !.pieces[pawn].hidden = TRUE,
                           !.fader = 3,
                           !.enable_drag_and_drop = FALSE,
                           !.promotion_prompt =
                               [new_square |-> new_square,
                                pawn |-> pawn,
                                pieces |-> [i \in {new_square + offset * k : k \in 0..3} |->
                                               pieces_by_color[(Abs(i - new_square) \div 8) + 1]]]]

\* Board.cancel_move(piece): the piece, or else the dragged piece, goes back to
\* its square.
cancel_move(board, piece) ==
    LET back == IF piece = NoPiece THEN board.dragging ELSE piece
    IN  [(IF back # NoPiece THEN move_to_square(board, back, board.pieces[back].square)
          ELSE board)
         EXCEPT !.dragging = NoPiece]

\* PromotionPrompt.mouse_click(clicked_square).
mouse_click(board, clicked_square) ==
    LET prompt == board.promotion_prompt
        pawn == prompt.pawn
        settled ==
            IF clicked_square # NoSquare /\ clicked_square \in DOMAIN prompt.pieces
            THEN [move_to_square(GameCalled(board, board.pieces[pawn].square,
                                            prompt.new_square, prompt.pieces[clicked_square]),
                                 pawn, prompt.new_square)
                  EXCEPT !.pieces[pawn].piece_type = prompt.pieces[clicked_square],
                         !.pieces[pawn].hidden = FALSE]
            ELSE cancel_move([board EXCEPT !.pieces[pawn].hidden = FALSE], pawn)
    IN  [settled EXCEPT !.fader = 0,
                        !.enable_drag_and_drop = TRUE,
                        !.promotion_prompt = NoPrompt]

\* Board.game_over_screen(), game.game_result being set.
game_over_screen(board) ==
    [board EXCEPT !.fader = 5, !.enable_drag_and_drop = FALSE]

\* Board.move_piece(piece, new_square).
move_piece(board, piece, new_square, legal, game_over) ==
    LET move_result == game_move(board.pieces[piece].piece_type, board.pieces[piece].square,
                                 new_square, "None", legal, game_over)
        called == GameCalled(board, board.pieces[piece].square, new_square, "None")
    IN  IF move_result.move_made
        THEN IF move_result.game_over
             THEN game_over_screen(move_to_square(called, piece, new_square))
             ELSE move_to_square(called, piece, new_square)
        ELSE IF move_result.promotion
        THEN PromotionPrompt(called, new_square, piece)
        ELSE cancel_move(called, NoPiece)

\* Board.mouse_down(event), square being get_square_on_pos(event.x, event.y).
mouse_down(board, square) ==
    IF ~board.enable_drag_and_drop THEN board
    ELSE IF square = NoSquare
    THEN \* None has no attribute piece
         [board EXCEPT !.raised = "AttributeError"]
    ELSE IF SquarePiece(board, square) = NoPiece
    THEN [board EXCEPT !.dragging = NoPiece]
    ELSE [board EXCEPT !.dragging = SquarePiece(board, square),
                       !.pieces[SquarePiece(board, square)].lifted = TRUE]

\* Line 542, which an exception does not reach.
DraggingReset(board) ==
    IF board.raised # "" THEN board ELSE [board EXCEPT !.dragging = NoPiece]

\* Board.mouse_release(event), square being get_square_on_pos(event.x, event.y).
mouse_release(board, square, legal, game_over) ==
    DraggingReset(
        IF board.promotion_prompt # NoPrompt
        THEN mouse_click(board, square)
        ELSE IF board.dragging # NoPiece /\ square # NoSquare
        THEN move_piece(board, board.dragging, square, legal, game_over)
        ELSE cancel_move(board, NoPiece))

\* Board.right_mouse_click(event).
right_mouse_click(board) == cancel_move(board, NoPiece)

\* The GUI when the window opens: no mouse event yet, the button is up.
NewGui ==
    [board |-> NewBoard, was |-> NewBoard, event |-> "", square |-> NoSquare,
     pressed |-> FALSE, events |-> 0]

(***************************************************************************)
(* The game: one Position, created at the standard starting position, and  *)
(* the calls of move() made on it.  A run first plays one of the scripted  *)
(* lines of Lines (every move of a line goes through move()), then up to   *)
(* MaxPly further calls with any arguments of the input sets.              *)
(***************************************************************************)
MaxPly == 2

\* The scripted lines; each is a list of calls move(old, new).
\* 1. h4 g5 2. hxg5 f5: White may take on f6 en passant.
EnPassantWhite ==
    << <<55, 39>>, <<14, 30>>, <<39, 30>>,
       <<13, 29>> >>

\* 1. a3 e5 2. a4 e4 3. d4: Black may take on d3 en passant.
EnPassantBlack ==
    << <<48, 40>>, <<12, 28>>, <<40, 32>>,
       <<28, 36>>, <<51, 35>> >>

\* 1. e3 h6 2. Nf3 d5 3. Bb5+ Qd7: White may castle kingside.
CastleWhiteKingside ==
    << <<52, 44>>, <<15, 23>>, <<62, 45>>,
       <<11, 27>>, <<61, 25>>, <<3, 11>> >>

\* 1. d4 d6 2. Nc3 f5 3. Bg5 c5 4. Qd3 d5: White may castle queenside.
CastleWhiteQueenside ==
    << <<51, 35>>, <<11, 19>>, <<57, 42>>,
       <<13, 29>>, <<58, 30>>, <<10, 26>>,
       <<59, 43>>, <<19, 27>> >>

\* 1. g3 g5 2. Nc3 Nh6 3. Bg2 Bg7 4. Rb1: Black may castle kingside.
CastleBlackKingside ==
    << <<54, 46>>, <<14, 30>>, <<57, 42>>,
       <<6, 23>>, <<61, 54>>, <<5, 14>>,
       <<56, 57>> >>

\* 1. d3 Nc6 2. Nd2 d5 3. Ne4 Qd6 4. Qd2 Bh3 5. Ng5: Black may castle queenside.
CastleBlackQueenside ==
    << <<51, 43>>, <<1, 18>>, <<57, 51>>,
       <<11, 27>>, <<51, 36>>, <<3, 19>>,
       <<59, 51>>, <<2, 47>>, <<36, 30>> >>

\* 1. e3 e5 2. Ba6 Nxa6 3. f3 Qg5 4. Ne2 Qxe3: f1 and g1 are empty, the queen attacks g1.
CastleThroughAttack ==
    << <<52, 44>>, <<12, 28>>, <<61, 16>>,
       <<1, 16>>, <<53, 45>>, <<3, 30>>,
       <<62, 52>>, <<30, 44>> >>

\* 1. b4 c5 2. d4 Qa5: the pawn on b4 is pinned by the queen it attacks.
PinnedPawnTakesQueen ==
    << <<49, 33>>, <<10, 26>>, <<51, 35>>,
       <<3, 24>> >>

\* 1. e4 g5 2. Qh5 d5: a queen on row 3 beside a pawn while d6 is en passantable.
QueenJumpsPawn ==
    << <<52, 36>>, <<14, 30>>, <<59, 31>>,
       <<11, 27>> >>

\* 1. f3 e5 2. g4: Black mates with Qh4.
FoolsMate ==
    << <<53, 45>>, <<12, 28>>, <<54, 38>> >>

\* 1. e4 c6 2. d4 d5 3. Nc3 dxe4 4. Nxe4 Nf6 5. Qd3 e5 6. dxe5 Qa5+ 7. Bd2 Qxe5
\* 8. O-O-O Nxe4 9. Qd8+ Kxd8: 10. Bg5 is a double check by bishop and rook.
RetiDoubleCheck ==
    << <<52, 36>>, <<10, 18>>, <<51, 35>>,
       <<11, 27>>, <<57, 42>>, <<27, 36>>,
       <<42, 36>>, <<6, 21>>, <<59, 43>>,
       <<12, 28>>, <<35, 28>>, <<3, 24>>,
       <<58, 51>>, <<24, 28>>, <<60, 58>>,
       <<21, 36>>, <<43, 3>>, <<4, 3>> >>

\* 1. h4 g5 2. hxg5 a6 3. g6 a5 4. gxh7 a4: White may promote on g8.
PromoteWhite ==
    << <<55, 39>>, <<14, 30>>, <<39, 30>>,
       <<8, 16>>, <<30, 22>>, <<16, 24>>,
       <<22, 15>>, <<24, 32>> >>

\* 1. a3 b5 2. a4 bxa4 3. h3 a3 4. h4 axb2 5. h5: Black may promote on a1 or c1.
PromoteBlack ==
    << <<48, 40>>, <<9, 25>>, <<40, 32>>,
       <<25, 32>>, <<55, 47>>, <<32, 40>>,
       <<47, 39>>, <<40, 49>>, <<39, 31>> >>

\* 1. e3 e5 2. h3 Ke7 3. Qe2 a5 4. Qh5 Kf6 5. Ne2 Ba3 6. g3 Bd6 7. h4: a pawn push
\* to row 3 lets the queen on h5 trace past the pawns to the king.
QueenReachesKing ==
    << <<52, 44>>, <<12, 28>>, <<55, 47>>,
       <<4, 12>>, <<59, 52>>, <<8, 24>>,
       <<52, 31>>, <<12, 21>>, <<62, 52>>,
       <<5, 40>>, <<54, 46>>, <<40, 19>>,
       <<47, 39>> >>

\* 1. e4 e6 2. Ke2 Qh4 3. Kd3 a6 4. Kc4 h5: the pawn on e4 is alone between the
\* king on c4 and the queen on h4 while h6 is en passantable.
PawnPinnedOnRank ==
    << <<52, 36>>, <<12, 20>>, <<60, 52>>,
       <<3, 39>>, <<52, 43>>, <<8, 16>>,
       <<43, 34>>, <<15, 31>> >>

\* 1. d4 Nc6 2. Bf4 Nb4 3. h3 c6 4. h4 Qa5 5. g3 Nxc2: knight and queen give a
\* double check that is mate.
DoubleCheckMate ==
    << <<51, 35>>, <<1, 18>>, <<58, 37>>,
       <<18, 33>>, <<55, 47>>, <<10, 18>>,
       <<47, 39>>, <<3, 24>>, <<54, 46>>,
       <<33, 50>> >>

\* 1. e3 f5 2. Ke2 f4 3. Kd3 e6 4. Kc4 Qh4 5. g4: the black queen on h4 looks
\* along row 4 over the pawns on g4 and f4 at the king on c4 while g3 is en
\* passantable.
QueenBehindOwnPawn ==
    << <<52, 44>>, <<13, 29>>, <<60, 52>>,
       <<29, 37>>, <<52, 43>>, <<12, 20>>,
       <<43, 34>>, <<3, 39>>, <<54, 38>> >>

\* 1. e4 e6 2. Qg4 Ke7 3. a3 Kd6 4. a4 Kc5 5. h3 Kd4 6. f4: the white queen on g4
\* stands behind its own pawns on f4 and e4, the black king on d4, while f3 is
\* en passantable.
QueenOverOwnPawns ==
    << <<52, 36>>, <<12, 20>>, <<59, 38>>,
       <<4, 12>>, <<48, 40>>, <<12, 19>>,
       <<40, 32>>, <<19, 26>>, <<55, 47>>,
       <<26, 35>>, <<53, 37>> >>

\* 1. e3 e5 2. Qg4 e4 3. h3 Ke7 4. g3 Kd6 5. Kd1 Kc5 6. Ke1 Kb4: the black king
\* on b4, a black pawn on e4 and the white queen on g4 share the fourth rank,
\* and White can push the d pawn or the f pawn next to the black pawn.
EnPassantPinned ==
    << <<52, 44>>, <<12, 28>>, <<59, 38>>,
       <<28, 36>>, <<55, 47>>, <<4, 12>>,
       <<54, 46>>, <<12, 19>>, <<60, 59>>,
       <<19, 26>>, <<59, 60>>, <<26, 33>> >>

Lines ==
    { <<>>,
      EnPassantWhite,
      EnPassantBlack,
      CastleWhiteKingside,
      CastleWhiteQueenside,
      CastleBlackKingside,
      CastleBlackQueenside,
      CastleThroughAttack,
      PinnedPawnTakesQueen,
      QueenJumpsPawn,
      FoolsMate,
      RetiDoubleCheck,
      PromoteWhite,
      PromoteBlack,
      QueenReachesKing,
      PawnPinnedOnRank,
      DoubleCheckMate,
      QueenBehindOwnPawn,
      QueenOverOwnPawns,
      EnPassantPinned }

\* Calls that the board does not offer: move(8, 16) and the four castling moves.
Probes == { <<8, 16>>, <<60, 62>>, <<60, 58>>, <<4, 6>>, <<4, 2>> }

\* The kinds of piece the promotion prompt offers.
PromotionKinds == {"Q", "R", "B", "N"}

Init ==
    /\ position = NewPosition
    /\ before = NewPosition
    /\ call = [old |-> -1, new |-> -1, promote_to |-> "None"]
    /\ result = -1
    /\ raised = ""
    /\ book \in Lines
    /\ ply = 0
    /\ searched = [depth |-> 0, count |-> 0]
    /\ loaded_fen = ""
    /\ conversion = [i |-> -1, coor |-> "", ret |-> -1, at |-> "start"]
    /\ gui = NewGui

\* position.move(old, new, promote_to), with the call and its outcome recorded.
Returned(r, old, new, promote_to) ==
    /\ position' = r.self
    /\ before' = position
    /\ call' = [old |-> old, new |-> new, promote_to |-> promote_to]
    /\ result' = r.result
    /\ raised' = r.raised
    /\ searched' = [depth |-> 0, count |-> 0]
    /\ UNCHANGED <<loaded_fen, conversion, gui>>

Call(old, new, promote_to) ==
    Returned(move(position, old, new, promote_to), old, new, promote_to)

\* The next call of the scripted line.
BookMove ==
    /\ raised = ""
    /\ book # <<>>
    /\ Call(Head(book)[1], Head(book)[2], "None")
    /\ book' = Tail(book)
    /\ UNCHANGED ply

\* A piece is dropped on one of the squares legal_moves lists for it.
PlayMove ==
    /\ raised = ""
    /\ book = <<>>
    /\ ply < MaxPly
    /\ \E old \in Squares, new \in Squares :
          /\ IsListed(position, old, new)
          /\ Call(old, new, "None")
    /\ ply' = ply + 1
    /\ UNCHANGED book

\* The promotion prompt is answered: the call is repeated with a kind of piece.
AnswerPrompt ==
    /\ raised = ""
    /\ book = <<>>
    /\ ply < MaxPly
    /\ result = MoveResults.PROMPT_PROMOTION
    /\ \E kind \in PromotionKinds : Call(call.old, call.new, kind)
    /\ ply' = ply + 1
    /\ UNCHANGED book

\* A call with arguments of Probes, listed in legal_moves or not.
ProbeMove ==
    /\ raised = ""
    /\ book = <<>>
    /\ ply < MaxPly
    /\ \E pr \in Probes : Call(pr[1], pr[2], "None")
    /\ ply' = ply + 1
    /\ UNCHANGED book

\* position.update_moves(), called once more on the position as it stands.
Updated(r) ==
    /\ position' = r.self
    /\ raised' = r.raised

UpdateMoves ==
    /\ raised = ""
    /\ book = <<>>
    /\ ply < MaxPly
    /\ Updated(update_moves(position))
    /\ before' = position
    /\ call' = [old |-> -1, new |-> -1, promote_to |-> "None"]
    /\ result' = -1
    /\ searched' = [depth |-> 0, count |-> 0]
    /\ ply' = ply + 1
    /\ UNCHANGED <<book, loaded_fen, conversion, gui>>

\* position.search(depth); MaxHorizon bounds how many plies past the script
\* the deepest position it visits lies.
MaxHorizon == 4

Searched(s, depth) ==
    /\ searched' = [depth |-> depth, count |-> s.count]
    /\ raised' = s.raised
    /\ position' = s.self

SearchCall ==
    /\ raised = ""
    /\ book = <<>>
    /\ ply < MaxPly
    /\ \E depth \in 1..(MaxHorizon - ply) : Searched(search(position, depth), depth)
    /\ before' = position
    /\ call' = [old |-> -1, new |-> -1, promote_to |-> "None"]
    /\ result' = -1
    /\ ply' = ply + 1
    /\ UNCHANGED <<book, loaded_fen, conversion, gui>>

Next == BookMove \/ PlayMove \/ AnswerPrompt \/ ProbeMove \/ UpdateMoves

Spec == Init /\ [][Next]_vars

\* Games from the standard starting position with calls of search().
InitSearch == Init /\ book = <<>>

NextSearch == PlayMove \/ ProbeMove \/ SearchCall

SpecSearch == InitSearch /\ [][NextSearch]_vars

\* MaxDepth bounds the depth of search() in positions that follow a scripted
\* line.
MaxDepth == 3

\* position.search(depth) with depth >= 2, after a scripted line.
PerftCall ==
    /\ raised = ""
    /\ book = <<>>
    /\ ply < MaxPly
    /\ \E depth \in 2..(MaxDepth - ply) : Searched(search(position, depth), depth)
    /\ before' = position
    /\ call' = [old |-> -1, new |-> -1, promote_to |-> "None"]
    /\ result' = -1
    /\ ply' = ply + 1
    /\ UNCHANGED <<book, loaded_fen, conversion, gui>>

\* Games that reach a position in which a pawn can move to its last rank, with
\* calls of search().
InitPerft == Init /\ book \in {PromoteWhite, PromoteBlack}

NextPerft == BookMove \/ PlayMove \/ PerftCall

SpecPerft == InitPerft /\ [][NextPerft]_vars

(***************************************************************************)
(* The board GUI under the mouse: the left button goes down and up on      *)
(* squares of GuiSquares or off the board, the right button is clicked,    *)
(* and the rules engine answers each game.move() of a drop.                *)
(***************************************************************************)
MaxEvents == 6

\* The squares the mouse is pressed and released on: a8, b8, b7, b6, b4, g2, g1.
GuiSquares == {0, 1, 9, 17, 33, 54, 62}

\* The board as a handler finds it.
BoardBefore == [gui.board EXCEPT !.game_calls = <<>>, !.raised = ""]

\* What the engine may find of a drop of the dragged piece on the square: legal
\* at most when a pawn goes forward, and no piece onto one of its own colour.
EngineFinds(board, square) ==
    LET piece == board.dragging
        type == board.pieces[piece].piece_type
        from == board.pieces[piece].square
        there == SquarePiece(board, square)
    IN  IF board.promotion_prompt = NoPrompt /\ piece # NoPiece /\ square # NoSquare
           /\ square # from
           /\ (type = "P" => square < from)
           /\ (type = "p" => square > from)
           /\ (there # NoPiece => IsUpper(board.pieces[there].piece_type) # IsUpper(type))
        THEN BOOLEAN
        ELSE {FALSE}

Handled(board, event, square, pressed) ==
    /\ gui' = [board |-> board, was |-> BoardBefore, event |-> event, square |-> square,
               pressed |-> pressed, events |-> gui.events + 1]
    /\ UNCHANGED <<position, before, call, result, raised, book, ply, searched, loaded_fen,
                   conversion>>

\* <Button-1>
MouseDown ==
    /\ gui.events < MaxEvents
    /\ ~gui.pressed
    /\ \E square \in GuiSquares \cup {NoSquare} :
          Handled(mouse_down(BoardBefore, square), "mouse_down", square, TRUE)

\* <ButtonRelease-1>
MouseRelease ==
    /\ gui.events < MaxEvents
    /\ gui.pressed
    /\ \E square \in GuiSquares \cup {NoSquare} :
       \E legal \in EngineFinds(BoardBefore, square) :
       \E game_over \in (IF legal THEN BOOLEAN ELSE {FALSE}) :
          Handled(mouse_release(BoardBefore, square, legal, game_over),
                  "mouse_release", square, FALSE)

\* <Button-3>
RightMouseClick ==
    /\ gui.events < MaxEvents
    /\ Handled(right_mouse_click(BoardBefore), "right_mouse_click", NoSquare, gui.pressed)

InitGui == Init /\ book = <<>>

NextGui == MouseDown \/ MouseRelease \/ RightMouseClick

SpecGui == InitGui /\ [][NextGui]_vars

(***************************************************************************)
(* Coordinates and FEN strings: a square index is named, the name is       *)
(* parsed back or put into the en passant field of a FEN string, and the   *)
(* string is loaded into a new Position.                                   *)
(***************************************************************************)
\* Strings given to coordinate_to_i() that name no square.
CoordinateInputs == {"", "e", "e33", "a10", "i3", "A1", "e0", "e9", "ex", "3e", "-"}

StartPlacement == "rnbqkbnr/pppppppp/8/8/8/8/PPPPPPPP/RNBQKBNR"
OpenGamePlacement == "rnbqkbnr/pppp1ppp/8/4p3/4P3/8/PPPP1PPP/RNBQKBNR"

\* Placement fields: five positions, then seven rows, nine rows, a row of
\* seven squares, a row of nine squares and an unknown letter.
Placements ==
    { StartPlacement,
      OpenGamePlacement,
      "r3k2r/8/8/8/8/8/8/R3K2R",
      "8/8/8/4k3/8/8/4P3/4K3",
      "7k/5p2/8/K3P1r1/8/8/8/8",
      "rnbqkbnr/pppppppp/8/8/8/8/PPPPPPPP",
      "rnbqkbnr/pppppppp/8/8/8/8/8/PPPPPPPP/RNBQKBNR",
      "rnbqkbnr/pppppppp/8/8/7/8/PPPPPPPP/RNBQKBNR",
      "rnbqkbnr/pppppppp/8/8/9/8/PPPPPPPP/RNBQKBNR",
      "rnbqkbnr/ppppxppp/8/8/8/8/PPPPPPPP/RNBQKBNR" }

Colours == {"w", "b", "x"}
CastlingFields == {"KQkq", "Kq", "-"}
HalfmoveFields == {"0", "12", "x"}
MoveNumFields == {"1", "40"}

FenOf(p, c, k, e, h, m) ==
    p \o " " \o c \o " " \o k \o " " \o e \o " " \o h \o " " \o m

\* The FEN strings with the en passant field e: every placement, every
\* combination of the other fields, and strings of five and of seven fields.
FenInputs(e) ==
    {FenOf(p, "w", "KQkq", e, "0", "1") : p \in Placements}
    \cup {FenOf(OpenGamePlacement, c, k, e, h, m) :
            c \in Colours, k \in CastlingFields, h \in HalfmoveFields, m \in MoveNumFields}
    \cup {StartPlacement \o " w KQkq " \o e \o " 0",
          StartPlacement \o " w KQkq " \o e \o " 0 1 1"}

InitFen ==
    /\ position = NewPosition
    /\ before = NewPosition
    /\ call = [old |-> -1, new |-> -1, promote_to |-> "None"]
    /\ result = -1
    /\ raised = ""
    /\ book = <<>>
    /\ ply = 0
    /\ searched = [depth |-> 0, count |-> 0]
    /\ loaded_fen = ""
    /\ conversion \in
          {[i |-> i, coor |-> "", ret |-> -1, at |-> "start"] : i \in Squares}
          \cup {[i |-> -1, coor |-> c, ret |-> -1, at |-> "named"] : c \in CoordinateInputs}
    /\ gui = NewGui

\* i_to_coordinate(i)
IToCoordinate ==
    /\ conversion.at = "start"
    /\ conversion' = [conversion EXCEPT !.coor = i_to_coordinate(conversion.i),
                                        !.at = "named"]
    /\ UNCHANGED <<position, before, call, result, raised, book, ply, searched, loaded_fen,
                   gui>>

\* coordinate_to_i(coor)
Parsed(r) ==
    /\ conversion' = [conversion EXCEPT !.ret = r.value, !.at = "parsed"]
    /\ raised' = r.raised

CoordinateToI ==
    /\ conversion.at = "named"
    /\ loaded_fen = ""
    /\ Parsed(coordinate_to_i(conversion.coor))
    /\ UNCHANGED <<position, before, call, result, book, ply, searched, loaded_fen, gui>>

\* position.load_fen(s) on a new Position, the en passant field of s being "-"
\* or the coordinate.
Loaded(r, s) ==
    /\ position' = r.self
    /\ raised' = r.raised
    /\ loaded_fen' = s

LoadFen ==
    /\ conversion.at = "named"
    /\ loaded_fen = ""
    /\ \E e \in {"-", conversion.coor} : \E s \in FenInputs(e) :
          Loaded(load_fen(position, s), s)
    /\ before' = position
    /\ UNCHANGED <<call, result, book, ply, searched, conversion, gui>>

NextFen == IToCoordinate \/ CoordinateToI \/ LoadFen

SpecFen == InitFen /\ [][NextFen]_vars

(***************************************************************************)
(* The rules of chess, stated on the board alone.  The claims compare what *)
(* the engine lists and does with these.                                   *)
(***************************************************************************)
Col(s) == s % 8
Row(s) == s \div 8
Sign(n) == IF n > 0 THEN 1 ELSE IF n < 0 THEN -1 ELSE 0
Max(a, b) == IF a >= b THEN a ELSE b

\* s and t lie on one rank, file or diagonal.
OnRankOrFile(s, t) == s # t /\ (Col(s) = Col(t) \/ Row(s) = Row(t))
OnDiagonal(s, t) == s # t /\ Abs(Col(s) - Col(t)) = Abs(Row(s) - Row(t))

\* The squares strictly between two squares of one line.
SquaresBetween(s, t) ==
    LET step == 8 * Sign(Row(t) - Row(s)) + Sign(Col(t) - Col(s))
        n == Max(Abs(Row(t) - Row(s)), Abs(Col(t) - Col(s)))
    IN  {s + k * step : k \in 1..(n - 1)}

PathIsClear(board, s, t) == \A u \in SquaresBetween(s, t) : board[u] = ""

\* The piece on s attacks square t.
Attacks(board, s, t) ==
    LET p == board[s]
        dx == Col(t) - Col(s)
        dy == Row(t) - Row(s)
    IN  CASE p = "P" -> dy = -1 /\ Abs(dx) = 1
          [] p = "p" -> dy = 1 /\ Abs(dx) = 1
          [] p \in {"N", "n"} -> {Abs(dx), Abs(dy)} = {1, 2}
          [] p \in {"K", "k"} -> s # t /\ Abs(dx) <= 1 /\ Abs(dy) <= 1
          [] p \in {"R", "r"} -> OnRankOrFile(s, t) /\ PathIsClear(board, s, t)
          [] p \in {"B", "b"} -> OnDiagonal(s, t) /\ PathIsClear(board, s, t)
          [] p \in {"Q", "q"} ->
                (OnRankOrFile(s, t) \/ OnDiagonal(s, t)) /\ PathIsClear(board, s, t)
          [] OTHER -> FALSE

\* Square t is attacked by a piece of the given colour.
AttackedBy(board, t, white) ==
    \E s \in Squares : board[s] # "" /\ IsUpper(board[s]) = white /\ Attacks(board, s, t)

\* The king of the given colour is attacked by an enemy piece.
KingAttacked(board, white) ==
    \E k \in Squares : board[k] = (IF white THEN "K" ELSE "k") /\ AttackedBy(board, k, ~white)

\* The piece on s may go to t by the way it moves, castling aside.
PseudoLegal(board, en_passantable, s, t) ==
    LET p == board[s]
        white == IsUpper(p)
        dir == IF white THEN -1 ELSE 1
        dx == Col(t) - Col(s)
        dy == Row(t) - Row(s)
        enemy_on_t == board[t] # "" /\ IsUpper(board[t]) # white
    IN  IF p \in {"P", "p"}
        THEN \/ dx = 0 /\ dy = dir /\ board[t] = ""
             \/ /\ dx = 0 /\ dy = 2 * dir /\ Row(s) = (IF white THEN 6 ELSE 1)
                /\ board[t] = "" /\ board[s + 8 * dir] = ""
             \/ /\ Abs(dx) = 1 /\ dy = dir
                /\ (enemy_on_t \/ (t = en_passantable /\ board[t] = ""))
        ELSE Attacks(board, s, t) /\ (board[t] = "" \/ enemy_on_t)

\* The board after the piece on s has gone to t, castling aside.
BoardAfter(board, s, t) ==
    LET p == board[s]
        moved == [board EXCEPT ![t] = p, ![s] = ""]
    IN  IF p \in {"P", "p"} /\ Col(s) # Col(t) /\ board[t] = ""
        THEN [moved EXCEPT ![8 * Row(s) + Col(t)] = ""]
        ELSE moved

\* The side to move may castle to the given side.
MayCastle(pos, side) ==
    LET squares == CASTLING_SQUARES(side)
        white == side \in {"K", "Q"}
    IN  /\ pos.turn = white
        /\ pos.castling_rights[side]
        /\ pos.board[squares[1]] = (IF white THEN "K" ELSE "k")
        /\ pos.board[squares[4]] = (IF white THEN "R" ELSE "r")
        /\ PathIsClear(pos.board, squares[1], squares[4])
        /\ \A i \in 1..3 : ~AttackedBy(pos.board, squares[i], ~white)

\* The move from s to t is legal in the position.
LegalInChess(pos, s, t) ==
    \/ /\ pos.board[s] # ""
       /\ IsUpper(pos.board[s]) = pos.turn
       /\ PseudoLegal(pos.board, pos.en_passantable, s, t)
       /\ ~KingAttacked(BoardAfter(pos.board, s, t), pos.turn)
    \/ \E k \in 1..Len(CASTLING_SIDES) :
          /\ s = CASTLING_SQUARES(CASTLING_SIDES[k])[1]
          /\ t = CASTLING_SQUARES(CASTLING_SIDES[k])[3]
          /\ MayCastle(pos, CASTLING_SIDES[k])

\* The (old, new) pairs that legal_moves lists.
Listed(pos) ==
    UNION {{<<old, pos.legal_moves[old][i]>> : i \in 1..Len(pos.legal_moves[old])} :
           old \in DOMAIN pos.legal_moves}

\* The last call of move() made the move.
Accepted == raised = "" /\ result \notin {-1, MoveResults.ILLEGAL, MoveResults.PROMPT_PROMOTION}

(***************************************************************************)
(* The claims                                                              *)
(***************************************************************************)

\* C1: no move that legal_moves lists leaves the king of the side that made
\* it attacked by an enemy piece.
C1_NoFalseLegalMoves ==
    raised = "" =>
        \A m \in Listed(position) :
            ~KingAttacked(BoardAfterMove(position, m[1], m[2]), position.turn)

\* C2: every move that is legal under the rules of chess is listed in
\* legal_moves under its origin square.
C2_EveryLegalMoveListed ==
    raised = "" =>
        \A s \in Squares, t \in Squares :
            LegalInChess(position, s, t) => <<s, t>> \in Listed(position)

\* C3: from the standard starting position search(1) = 20, search(2) = 400,
\* search(3) = 8902 and search(4) = 197281.
C3_SearchFromStart ==
    (searched.depth # 0 /\ raised = "" /\ position = NewPosition) =>
        searched.count = CASE searched.depth = 1 -> 20
                           [] searched.depth = 2 -> 400
                           [] searched.depth = 3 -> 8902
                           [] searched.depth = 4 -> 197281
                           [] OTHER -> searched.count

C3_Witness ==
    /\ position = NewPosition
    /\ searched = [depth |-> 4, count |-> 197281]

\* The last call was move(old, new) and it was answered without an exception.
Called == call.old # -1 /\ raised = ""

\* The king and the rook of a castling side.
KingOf(side) == IF side \in {"K", "Q"} THEN "K" ELSE "k"
RookOf(side) == IF side \in {"K", "Q"} THEN "R" ELSE "r"

\* C4: a call of move(old, new) with old no key of legal_moves or new not in
\* legal_moves[old] returns ILLEGAL, raises nothing and leaves every attribute
\* of the Position as it was.
C4_IllegalMoveChangesNothing ==
    (call.old # -1 /\ <<call.old, call.new>> \notin Listed(before)) =>
        /\ result = MoveResults.ILLEGAL
        /\ raised = ""
        /\ position = before

C4_Witness ==
    /\ before = NewPosition
    /\ call = [old |-> 8, new |-> 16, promote_to |-> "None"]
    /\ result = MoveResults.ILLEGAL
    /\ position = NewPosition

\* C5: a listed move of a white pawn to row 0 or of a black pawn to row 7,
\* called with promote_to = None, returns PROMPT_PROMOTION and leaves the
\* Position as it was.
C5_PromotionDeferred ==
    (/\ Called
     /\ <<call.old, call.new>> \in Listed(before)
     /\ call.promote_to = "None"
     /\ \/ before.board[call.old] = "P" /\ call.new \div 8 = 0
        \/ before.board[call.old] = "p" /\ call.new \div 8 = 7) =>
        /\ result = MoveResults.PROMPT_PROMOTION
        /\ position = before

\* C6: an accepted move() returns EN_PASSANT for an en passant capture, CASTLE
\* for a castling move, PROMOTION for a promoting pawn move (CAPTURE is taken
\* too when the promoting pawn captures), CAPTURE when the destination held a
\* piece, and MOVE otherwise.
C6_ReturnClassifiesMove ==
    Accepted =>
        LET piece == before.board[call.old]
            pawn == piece \in {"P", "p"}
            capture == before.board[call.new] # ""
            promotion == pawn /\ (call.new \div 8) \in {0, 7}
        IN  result \in
                IF pawn /\ call.new = before.en_passantable
                THEN {MoveResults.EN_PASSANT}
                ELSE IF piece \in {"K", "k"} /\ Abs(call.new - call.old) = 2
                THEN {MoveResults.CASTLE}
                ELSE IF promotion /\ capture
                THEN {MoveResults.PROMOTION, MoveResults.CAPTURE}
                ELSE IF promotion THEN {MoveResults.PROMOTION}
                ELSE IF capture THEN {MoveResults.CAPTURE}
                ELSE {MoveResults.MOVE}

\* C7: when move() is called for a king on its home square squares[0] and the
\* square squares[2] two squares from it, an accepted call leaves the king on
\* squares[2], the rook of the side on squares[1] and squares[0] and
\* squares[3] empty; and when an enemy piece attacks the square the king
\* passes or the square it lands on, the call returns ILLEGAL and the
\* Position stays as it was.
C7_CastlingRelocatesKingAndRook ==
    \A k \in 1..Len(CASTLING_SIDES) :
        LET side == CASTLING_SIDES[k]
            squares == CASTLING_SQUARES(side)
        IN  (/\ call.old = squares[1]
             /\ call.new = squares[3]
             /\ before.board[squares[1]] = KingOf(side)) =>
                /\ Accepted =>
                      /\ position.board[squares[3]] = KingOf(side)
                      /\ position.board[squares[2]] = RookOf(side)
                      /\ position.board[squares[1]] = ""
                      /\ position.board[squares[4]] = ""
                /\ (\/ AttackedBy(before.board, squares[2], ~IsUpper(KingOf(side)))
                    \/ AttackedBy(before.board, squares[3], ~IsUpper(KingOf(side)))) =>
                      /\ result = MoveResults.ILLEGAL
                      /\ raised = ""
                      /\ position = before

C7_Witness ==
    /\ Accepted
    /\ \E k \in 1..Len(CASTLING_SIDES) :
          /\ call.old = CASTLING_SQUARES(CASTLING_SIDES[k])[1]
          /\ call.new = CASTLING_SQUARES(CASTLING_SIDES[k])[3]
          /\ before.board[call.old] = KingOf(CASTLING_SIDES[k])
          /\ before.board[CASTLING_SQUARES(CASTLING_SIDES[k])[4]] = RookOf(CASTLING_SIDES[k])
          /\ position.board[CASTLING_SQUARES(CASTLING_SIDES[k])[2]] = RookOf(CASTLING_SIDES[k])

\* C8: for each castling side, squares[2] is listed in legal_moves under the
\* home square of the king, with the king of that colour on it, if and only
\* if the king of that colour stands on its home square, check is not set,
\* castling_rights[side] is set, every square strictly between the king and
\* the rook is empty, and neither squares[1] nor squares[2] is in
\* attacked_squares.
C8_CastlingListedIffAllowed ==
    raised = "" =>
        \A k \in 1..Len(CASTLING_SIDES) :
            LET side == CASTLING_SIDES[k]
                squares == CASTLING_SQUARES(side)
            IN  (/\ position.board[squares[1]] = KingOf(side)
                 /\ <<squares[1], squares[3]>> \in Listed(position))
                <=>
                (/\ position.board[squares[1]] = KingOf(side)
                 /\ ~position.check
                 /\ position.castling_rights[side]
                 /\ PathIsClear(position.board, squares[1], squares[4])
                 /\ squares[2] \notin position.attacked_squares
                 /\ squares[3] \notin position.attacked_squares)

C8_Witness ==
    /\ raised = ""
    /\ \E k \in 1..Len(CASTLING_SIDES) :
          /\ position.board[CASTLING_SQUARES(CASTLING_SIDES[k])[1]] = KingOf(CASTLING_SIDES[k])
          /\ <<CASTLING_SQUARES(CASTLING_SIDES[k])[1], CASTLING_SQUARES(CASTLING_SIDES[k])[3]>>
                \in Listed(position)

\* C9: when an accepted move takes a pawn onto the en passant target square,
\* the enemy pawn behind the target (one row back for the capturing pawn) is
\* removed, the capturing pawn stands on the target, the square it left is
\* empty and every other square is as before.
C9_EnPassantRemovesPushedPawn ==
    (/\ Accepted
     /\ before.board[call.old] \in {"P", "p"}
     /\ call.new = before.en_passantable) =>
        LET piece == before.board[call.old]
            behind == call.new + (IF piece = "P" THEN 8 ELSE -8)
        IN  /\ before.board[behind] = (IF piece = "P" THEN "p" ELSE "P")
            /\ position.board[behind] = ""
            /\ position.board[call.new] = piece
            /\ position.board[call.old] = ""
            /\ \A s \in Squares \ {call.old, call.new, behind} :
                   position.board[s] = before.board[s]

C9_Witness ==
    /\ Accepted
    /\ before.board[call.old] = "p"
    /\ call.new = before.en_passantable
    /\ before.board[call.new - 8] = "P"
    /\ position.board[call.new - 8] = ""

\* C10: after an accepted move en_passantable is the square the pawn skipped
\* when the move was a two-square pawn push, and -1 after any other move.
C10_EnPassantTargetLifetime ==
    Accepted =>
        IF before.board[call.old] \in {"P", "p"} /\ Abs(call.new - call.old) = 16
        THEN position.en_passantable = (call.old + call.new) \div 2
        ELSE position.en_passantable = -1

C10_Witness ==
    /\ Accepted
    /\ before.en_passantable # -1
    /\ before.board[call.old] \in {"P", "p"}
    /\ Abs(call.new - call.old) = 16
    /\ position.en_passantable = (call.old + call.new) \div 2

\* C11: over every call, a castling right that was False before is False
\* after, and an accepted move whose piece leaves the king's home square, or
\* leaves the rook's home corner, or lands on the rook's home corner leaves
\* the right of that side False.
C11_CastlingRightsOnlyFall ==
    \A k \in 1..Len(CASTLING_SIDES) :
        LET side == CASTLING_SIDES[k]
            squares == CASTLING_SQUARES(side)
        IN  /\ ~before.castling_rights[side] => ~position.castling_rights[side]
            /\ (/\ Accepted
                /\ \/ call.old = squares[1]
                   \/ call.old = squares[4]
                   \/ call.new = squares[4]) => ~position.castling_rights[side]

C11_Witness ==
    /\ Accepted
    /\ \E k \in 1..Len(CASTLING_SIDES) :
          /\ before.castling_rights[CASTLING_SIDES[k]]
          /\ call.new = CASTLING_SQUARES(CASTLING_SIDES[k])[4]
          /\ call.old # CASTLING_SQUARES(CASTLING_SIDES[k])[1]
          /\ ~position.castling_rights[CASTLING_SIDES[k]]

\* The three squares lie on one rank, file or diagonal.
Collinear(a, k, t) ==
    \/ Row(a) = Row(k) /\ Row(t) = Row(k)
    \/ Col(a) = Col(k) /\ Col(t) = Col(k)
    \/ Col(a) - Row(a) = Col(k) - Row(k) /\ Col(t) - Row(t) = Col(k) - Row(k)
    \/ Col(a) + Row(a) = Col(k) + Row(k) /\ Col(t) + Row(t) = Col(k) + Row(k)

\* The piece on s is the only piece between its own king on k and an enemy
\* rook, bishop or queen on a that attacks along the line from a to k.
AbsolutelyPinned(board, s, k, a) ==
    /\ board[s] # ""
    /\ board[k] = (IF IsUpper(board[s]) THEN "K" ELSE "k")
    /\ board[a] # "" /\ IsUpper(board[a]) # IsUpper(board[s])
    /\ \/ Upper(board[a]) \in {"R", "Q"} /\ OnRankOrFile(a, k)
       \/ Upper(board[a]) \in {"B", "Q"} /\ OnDiagonal(a, k)
    /\ s \in SquaresBetween(a, k)
    /\ \A u \in SquaresBetween(a, k) \ {s} : board[u] = ""

\* C12: a piece of the side to move that is the only piece between its own king
\* and an enemy rook, bishop or queen attacking along that line has no
\* destination in legal_moves off the line through the pinning piece and the
\* king.
C12_PinnedPieceStaysOnLine ==
    raised = "" =>
        \A k \in {x \in Squares : position.board[x] \in {"K", "k"}} :
        \A a \in {x \in Squares : Upper(position.board[x]) \in {"R", "B", "Q"}} :
        \A s \in SquaresBetween(a, k) \cap DOMAIN position.legal_moves :
            AbsolutelyPinned(position.board, s, k, a) =>
                \A i \in 1..Len(position.legal_moves[s]) :
                    Collinear(a, k, position.legal_moves[s][i])

\* The side to move has no legal move.
NoLegalMove(pos) ==
    \A s \in {x \in Squares : pos.board[x] # "" /\ IsUpper(pos.board[x]) = pos.turn} :
        \A t \in Squares : ~LegalInChess(pos, s, t)

\* C13: after an accepted move that leaves the side to move without a legal
\* move, every list in legal_moves is empty, and check is True when that side's
\* king is attacked (checkmate) and False when it is not (stalemate).
C13_MateAndStalemateObservable ==
    (Accepted /\ NoLegalMove(position)) =>
        /\ \A s \in DOMAIN position.legal_moves : position.legal_moves[s] = <<>>
        /\ position.check = KingAttacked(position.board, position.turn)

\* The k-th field of the FEN string that was loaded.
FenField(k) == SplitFields(loaded_fen, 0, "", <<>>)[k]

\* C14: for every square index i, coordinate_to_i(i_to_coordinate(i)) returns
\* i, and a load_fen() whose en passant field is i_to_coordinate(i) stores i as
\* en_passantable.
C14_CoordinateRoundTrip ==
    conversion.i # -1 =>
        /\ conversion.at = "parsed" => (raised = "" /\ conversion.ret = conversion.i)
        /\ (loaded_fen # "" /\ raised = "" /\ FenField(4) = conversion.coor) =>
               position.en_passantable = conversion.i

\* What the FEN standard says of the six fields.  A placement row is made of
\* piece letters and the digits 1 to 8, no two digits side by side, and fills
\* eight squares.
RECURSIVE RowWidth(_, _)
RowWidth(row, i) ==
    IF i >= Len(row) THEN 0
    ELSE (IF IsDigit(CharAt(row, i)) THEN DigitValue(CharAt(row, i)) ELSE 1)
         + RowWidth(row, i + 1)

WellFormedRow(row) ==
    /\ \A i \in 0..(Len(row) - 1) :
          \/ CharAt(row, i) \in PIECE_TYPES
          \/ InStr(CharAt(row, i), "12345678")
    /\ \A i \in 0..(Len(row) - 2) : ~(IsDigit(CharAt(row, i)) /\ IsDigit(CharAt(row, i + 1)))
    /\ RowWidth(row, 0) = 8

WellFormedNumber(s) ==
    /\ Len(s) > 0
    /\ \A i \in 0..(Len(s) - 1) : IsDigit(CharAt(s, i))
    /\ Len(s) > 1 => CharAt(s, 0) # "0"

\* The castling field that names the given rights.
CastlingFieldOf(rights) ==
    LET s == (IF rights["K"] THEN "K" ELSE "") \o (IF rights["Q"] THEN "Q" ELSE "")
             \o (IF rights["k"] THEN "k" ELSE "") \o (IF rights["q"] THEN "q" ELSE "")
    IN  IF s = "" THEN "-" ELSE s

WellFormedFen(s) ==
    LET fields == SplitFields(s, 0, "", <<>>)
    IN  /\ Len(fields) = 6
        /\ LET rows == SplitOn(fields[1], "/", 0, "", <<>>)
           IN  Len(rows) = 8 /\ \A k \in 1..8 : WellFormedRow(rows[k])
        /\ fields[2] \in {"w", "b"}
        /\ \E rights \in [{"K", "Q", "k", "q"} -> BOOLEAN] : fields[3] = CastlingFieldOf(rights)
        /\ \/ fields[4] = "-"
           \/ Len(fields[4]) = 2 /\ InStr(CharAt(fields[4], 0), "abcdefgh")
                                 /\ InStr(CharAt(fields[4], 1), "12345678")
        /\ WellFormedNumber(fields[5])
        /\ WellFormedNumber(fields[6])

\* The row-by-row expansion of a placement field: a digit stands for that many
\* empty squares, a letter for itself, "/" ends a row.
RECURSIVE ExpandPlacement(_, _)
ExpandPlacement(p, i) ==
    IF i >= Len(p) THEN <<>>
    ELSE (IF CharAt(p, i) = "/" THEN <<>>
          ELSE IF IsDigit(CharAt(p, i)) THEN [k \in 1..DigitValue(CharAt(p, i)) |-> ""]
          ELSE <<CharAt(p, i)>>)
         \o ExpandPlacement(p, i + 1)

\* C15: after load_fen(s) for a well-formed FEN string s, which is not
\* rejected with a ValueError, the board is the row-by-row expansion of the placement field, turn is True
\* iff the colour field is "w", castling_rights[x] is True iff x occurs in the
\* castling field, and halfmove_clock and move_num are the integers of fields 5
\* and 6, so that the castling field and the two numbers written out again are
\* the fields of s.
C15_FenFieldsLoaded ==
    (loaded_fen # "" /\ WellFormedFen(loaded_fen)) =>
        LET fields == SplitFields(loaded_fen, 0, "", <<>>)
            expansion == ExpandPlacement(fields[1], 0)
        IN  /\ raised # "ValueError"
            /\ \A i \in Squares : position.board[i] = expansion[i + 1]
            /\ position.turn = (fields[2] = "w")
            /\ \A x \in {"K", "Q", "k", "q"} : position.castling_rights[x] = InStr(x, fields[3])
            /\ CastlingFieldOf(position.castling_rights) = fields[3]
            /\ position.halfmove_clock >= 0 /\ Str(position.halfmove_clock) = fields[5]
            /\ position.move_num >= 0 /\ Str(position.move_num) = fields[6]

C15_Witness ==
    /\ loaded_fen # "" /\ WellFormedFen(loaded_fen)
    /\ position.board # STARTING_BOARD
    /\ ~position.turn
    /\ position.castling_rights = [x \in {"K", "Q", "k", "q"} |-> x \in {"K", "q"}]
    /\ position.halfmove_clock = 12
    /\ position.move_num = 40
    /\ FenField(4) # "-"

\* A placement field with a number of rows other than 8, with a character that
\* is neither a piece letter nor a digit, or with a row that does not fill
\* exactly eight squares.
MalformedPlacement(p) ==
    LET rows == SplitOn(p, "/", 0, "", <<>>)
    IN  \/ Len(rows) # 8
        \/ \E k \in 1..Len(rows) :
              \/ \E i \in 0..(Len(rows[k]) - 1) :
                    CharAt(rows[k], i) \notin PIECE_TYPES /\ ~IsDigit(CharAt(rows[k], i))
              \/ /\ \A i \in 0..(Len(rows[k]) - 1) :
                        CharAt(rows[k], i) \in PIECE_TYPES \/ IsDigit(CharAt(rows[k], i))
                 /\ RowWidth(rows[k], 0) # 8

\* A string that names no square: its length is not 2, its file is outside
\* a-h or its rank is outside 1-8.
MalformedCoordinate(coor) ==
    \/ Len(coor) # 2
    \/ CharAt(coor, 0) \notin {"a", "b", "c", "d", "e", "f", "g", "h"}
    \/ CharAt(coor, 1) \notin {"1", "2", "3", "4", "5", "6", "7", "8"}

\* C16: load_fen(s) raises ValueError when the placement field of s is
\* malformed or its colour field is neither "w" nor "b", and coordinate_to_i(c)
\* raises ValueError when c names no square.
C16_FormatErrorsRaise ==
    /\ loaded_fen # "" =>
          LET fields == SplitFields(loaded_fen, 0, "", <<>>)
          IN  (/\ Len(fields) >= 2
               /\ MalformedPlacement(fields[1]) \/ fields[2] \notin {"w", "b"})
              => raised = "ValueError"
    /\ (conversion.at = "parsed" /\ MalformedCoordinate(conversion.coor))
          => raised = "ValueError"

C16_Witness ==
    /\ loaded_fen # ""
    /\ Len(SplitFields(loaded_fen, 0, "", <<>>)) = 6
    /\ ~MalformedPlacement(FenField(1))
    /\ FenField(2) = "x"
    /\ FenField(4) = "-"
    /\ WellFormedNumber(FenField(5))
    /\ raised = "ValueError"

\* The last call was update_moves(), on a Position whose moves were up to date.
UpdatedAgain == call.old = -1 /\ ply > 0 /\ searched.depth = 0 /\ loaded_fen = ""

\* C17: a call of update_moves() on a Position that no move() has changed since
\* its last update_moves() raises nothing and leaves legal_moves, check and
\* attacked_squares as they were.
C17_UpdateMovesIdempotent ==
    UpdatedAgain =>
        /\ raised = ""
        /\ position.legal_moves = before.legal_moves
        /\ position.check = before.check
        /\ position.attacked_squares = before.attacked_squares

\* The number of pieces on a board.
PieceCount(board) == Cardinality({s \in Squares : board[s] # ""})

\* C18: an accepted move leaves halfmove_clock 0 when the piece moved is a pawn
\* or a piece has left the board (a capture, en passant too), and one more than
\* before otherwise; a call that returns ILLEGAL or PROMPT_PROMOTION leaves it
\* as it was.
C18_HalfmoveClock ==
    /\ Accepted =>
          position.halfmove_clock =
              IF \/ before.board[call.old] \in {"P", "p"}
                 \/ PieceCount(position.board) < PieceCount(before.board)
              THEN 0
              ELSE before.halfmove_clock + 1
    /\ (Called /\ result \in {MoveResults.ILLEGAL, MoveResults.PROMPT_PROMOTION}) =>
          position.halfmove_clock = before.halfmove_clock

C18_Witness ==
    /\ Accepted
    /\ before.board[call.old] \notin {"P", "p"}
    /\ before.board[call.new] # ""
    /\ before.halfmove_clock >= 2
    /\ position.halfmove_clock = 0

\* C19: an accepted move hands the turn to the other side, and move_num grows
\* by one when a black piece was moved and stays when a white piece was moved;
\* a call that returns ILLEGAL or PROMPT_PROMOTION changes neither.
C19_TurnAndMoveNumber ==
    /\ Accepted =>
          /\ position.turn = ~before.turn
          /\ before.turn = IsUpper(before.board[call.old])
          /\ position.move_num =
                 IF IsLower(before.board[call.old]) THEN before.move_num + 1
                 ELSE before.move_num
    /\ (Called /\ result \in {MoveResults.ILLEGAL, MoveResults.PROMPT_PROMOTION}) =>
          /\ position.turn = before.turn
          /\ position.move_num = before.move_num

C19_Witness ==
    /\ Accepted
    /\ IsLower(before.board[call.old])
    /\ before.move_num >= 2
    /\ position.move_num = before.move_num + 1
    /\ position.turn

\* C20: no call of move() or update_moves() in a game from the standard
\* starting position raises: the assertion of line 429 never fails.
C20_NoRaiseInPlay == raised = ""

\* C21: after update_moves() check is True if and only if the king of the side
\* to move is attacked by an enemy piece, a rook, bishop or queen attacking
\* only along a line with no piece of either colour between it and the king.
C21_CheckFlagExact ==
    raised = "" => position.check = KingAttacked(position.board, position.turn)

\* C22: every destination that legal_moves lists is one the piece on the origin
\* square can go to by the way it moves (a rook, bishop or queen along a rank,
\* file or diagonal over empty squares only, never across a board edge) and
\* holds no piece of the mover's colour; a king's castling move aside.
C22_ListedMovesPseudoLegal ==
    raised = "" =>
        \A m \in Listed(position) :
            \/ PseudoLegal(position.board, position.en_passantable, m[1], m[2])
            \/ /\ position.board[m[1]] \in {"K", "k"}
               /\ \E k \in 1..Len(CASTLING_SIDES) :
                     /\ m[1] = CASTLING_SQUARES(CASTLING_SIDES[k])[1]
                     /\ m[2] = CASTLING_SQUARES(CASTLING_SIDES[k])[3]

\* C23: a piece of the side to move that is pinned to its king and can legally
\* capture the piece that pins it has the pinning piece's square in its list
\* of legal_moves.
C23_PinnedPieceTakesPinner ==
    raised = "" =>
        \A k \in {x \in Squares : position.board[x] \in {"K", "k"}} :
        \A a \in {x \in Squares : Upper(position.board[x]) \in {"R", "B", "Q"}} :
        \A s \in SquaresBetween(a, k) \cap DOMAIN position.legal_moves :
            (AbsolutelyPinned(position.board, s, k, a) /\ LegalInChess(position, s, a)) =>
                <<s, a>> \in Listed(position)

\* The enemy pieces that attack the king of the given colour.
Checkers(board, white) ==
    {s \in Squares :
        /\ board[s] # "" /\ IsUpper(board[s]) # white
        /\ \E k \in Squares : board[k] = (IF white THEN "K" ELSE "k") /\ Attacks(board, s, k)}

\* C24: when two enemy pieces attack the king of the side to move, legal_moves
\* has no destination for any piece but the king.
C24_DoubleCheckKingMovesOnly ==
    (raised = "" /\ Cardinality(Checkers(position.board, position.turn)) >= 2) =>
        \A s \in DOMAIN position.legal_moves :
            position.board[s] \notin {"K", "k"} => position.legal_moves[s] = <<>>

\* The pawn on s could capture en passant, and its king, the pawn that has just
\* made the double push and an enemy rook or queen on a stand on the rank of
\* s, with the two pawns alone between the attacker and the king.
EnPassantExposesKing(pos, s, a) ==
    LET board == pos.board
        pushed == IF pos.turn THEN pos.en_passantable + 8 ELSE pos.en_passantable - 8
    IN  /\ pos.en_passantable # -1
        /\ board[s] = (IF pos.turn THEN "P" ELSE "p")
        /\ board[pushed] = (IF pos.turn THEN "p" ELSE "P")
        /\ Row(s) = Row(pushed) /\ Abs(Col(s) - Col(pushed)) = 1
        /\ board[a] \in (IF pos.turn THEN {"r", "q"} ELSE {"R", "Q"})
        /\ Row(a) = Row(s)
        /\ \E k \in Squares :
              /\ board[k] = (IF pos.turn THEN "K" ELSE "k")
              /\ Row(k) = Row(s)
              /\ {x \in SquaresBetween(a, k) : board[x] # ""} = {s, pushed}

EnPassantCaptureExposesKing(pos, s) ==
    /\ pos.en_passantable # -1
    /\ pos.board[s] = (IF pos.turn THEN "P" ELSE "p")
    /\ pos.board[pos.en_passantable] = ""
    /\ PseudoLegal(pos.board, pos.en_passantable, s, pos.en_passantable)
    /\ KingAttacked(BoardAfter(pos.board, s, pos.en_passantable), pos.turn)

\* C26: after update_moves(), en_passant_pinned is -1 or the square of a pawn of
\* the current position whose en-passant capture would expose its own king.
C26_EnPassantPinnedIsCurrent ==
    raised = "" =>
        \/ position.en_passant_pinned = -1
        \/ /\ position.en_passant_pinned \in Squares
           /\ EnPassantCaptureExposesKing(position, position.en_passant_pinned)

\* C27: no pawn stands on row 0 or row 7, and a move accepted with promote_to = k
\* for a pawn that reaches its last rank leaves a piece of kind k in the
\* mover's colour on the destination square.
C27_PromotionReplacesPawn ==
    raised = "" =>
        /\ \A s \in Squares : position.board[s] \in {"P", "p"} => Row(s) \notin {0, 7}
        /\ (/\ Accepted /\ call.promote_to \in PromotionKinds
            /\ before.board[call.old] \in {"P", "p"}
            /\ Row(call.new) \in {0, 7})
           => /\ Upper(position.board[call.new]) = call.promote_to
              /\ IsUpper(position.board[call.new]) = before.turn

\* A pawn moves from old to its last rank.
IsPromotion(self, old, new) == self.board[old] \in {"P", "p"} /\ Row(new) \in {0, 7}

\* The positions that result from applying the k-th and later (old, new) pairs
\* to a clone each, one per promotion kind for a promotion.
RECURSIVE ChildrenFrom(_, _, _)
ChildrenFrom(self, pairs, k) ==
    IF k > Len(pairs) THEN <<>>
    ELSE (IF IsPromotion(self, pairs[k][1], pairs[k][2])
          THEN [i \in 1..4 |->
                   move(copy(self), pairs[k][1], pairs[k][2], <<"Q", "R", "B", "N">>[i]).self]
          ELSE <<move(copy(self), pairs[k][1], pairs[k][2], "None").self>>)
         \o ChildrenFrom(self, pairs, k + 1)

RECURSIVE SumOfSearches(_, _, _)
SumOfSearches(children, depth, k) ==
    IF k > Len(children) THEN 0
    ELSE search(children[k], depth).count + SumOfSearches(children, depth, k + 1)

\* search(depth) is the sum of search(depth - 1) over children, all of which
\* have the other side to move.
SumsOverChildren(self, children, depth, count) ==
    /\ count = SumOfSearches(children, depth - 1, 1)
    /\ \A k \in 1..Len(children) : children[k].turn # self.turn

\* C28: for depth >= 2, search(depth) is the sum of search(depth - 1) over the
\* positions that result from applying each legal (old, new) pair to a clone,
\* four positions for a promotion, and in each of them the other side is to
\* move.
C28_SearchSumsOverChildren ==
    (searched.depth >= 2 /\ raised = "") =>
        SumsOverChildren(position,
                         ChildrenFrom(position,
                                      PairsFrom(position.legal_moves,
                                                SortedSeq(DOMAIN position.legal_moves), 1),
                                      1),
                         searched.depth, searched.count)

\* C29: after search(depth) has returned, every attribute of the position it was
\* called on has the value it had before the call.
C29_SearchLeavesReceiver ==
    (searched.depth # 0 /\ raised = "") =>
        \A attr \in ATTRIBUTES : position[attr] = before[attr]

\* search(3) has returned 8902 at the starting position: 420 copies have been
\* moved and searched, and the position is as it was.
C29_Witness ==
    /\ raised = ""
    /\ searched = [depth |-> 3, count |-> 8902]
    /\ before = NewPosition
    /\ position = NewPosition

\* The last mouse event found a promotion prompt open.
PromptWasOpen == gui.was.promotion_prompt # NoPrompt

\* The last mouse event was a release on one of the buttons of the prompt.
ReleasedOnButton ==
    /\ gui.event = "mouse_release" /\ PromptWasOpen
    /\ gui.square \in DOMAIN gui.was.promotion_prompt.pieces

\* C30: while a promotion prompt is open drag and drop is disabled and a mouse
\* down starts no drag; the next mouse release closes the prompt and enables
\* drag and drop; on one of the four buttons it calls game.move with the kind
\* of the button, anywhere else it calls nothing and the pawn is back on its
\* square; and game.move gets a promotion kind in no other event.
C30_PromotionPromptProtocol ==
    LET board == gui.board
        was == gui.was
        prompt == was.promotion_prompt
    IN  /\ board.promotion_prompt # NoPrompt =>
               /\ ~board.enable_drag_and_drop
               /\ Cardinality(DOMAIN board.promotion_prompt.pieces) = 4
        /\ (gui.event = "mouse_down" /\ PromptWasOpen) =>
               /\ board.dragging = NoPiece
               /\ board.pieces = was.pieces
        /\ (gui.event = "mouse_release" /\ PromptWasOpen) =>
               /\ board.promotion_prompt = NoPrompt
               /\ board.enable_drag_and_drop
               /\ IF ReleasedOnButton
                  THEN board.game_calls =
                           << [old |-> was.pieces[prompt.pawn].square,
                               new |-> prompt.new_square,
                               promote_to |-> prompt.pieces[gui.square]] >>
                  ELSE /\ board.game_calls = <<>>
                       /\ board.pieces[prompt.pawn] =
                              [was.pieces[prompt.pawn] EXCEPT !.hidden = FALSE, !.lifted = FALSE]
                       /\ \A id \in DOMAIN board.pieces :
                             board.pieces[id].square = was.pieces[id].square
        /\ \A k \in 1..Len(board.game_calls) :
               board.game_calls[k].promote_to # "None" => ReleasedOnButton

\* The prompt for b7-b8 was open and the button was released on the rook button
\* on b7: game.move(9, 1, "R") has been called and the prompt is closed.
C30_Witness ==
    /\ ReleasedOnButton
    /\ gui.square = 9
    /\ gui.board.game_calls = << [old |-> 9, new |-> 1, promote_to |-> "R"] >>
    /\ gui.board.promotion_prompt = NoPrompt
    /\ gui.board.enable_drag_and_drop

=============================================================================
